---------------------------- MODULE Spec2Model ----------------------------
(***************************************************************************)
(* A model of the AI news digest pipeline of github_ai_news_digest.py:     *)
(* the idempotency guard, the per-source headline fetch, the model-        *)
(* assisted classification with its programmatic dedup, the per-theme      *)
(* synthesis, the text file write and the audio renderer with its retry,   *)
(* backoff and gTTS fallback.                                              *)
(*                                                                         *)
(* Strings whose characters the code inspects (headlines, error messages)  *)
(* are tuples of one-character strings.  The digest text, of which the     *)
(* code only counts the words, is a tuple of tokens: a token is either a   *)
(* run of whitespace or a run of non-whitespace characters.                *)
(*                                                                         *)
(* Lines 456-492 of the source are indented one level deeper than the      *)
(* statement they follow; they are read as the statements that follow the  *)
(* classification call inside the same try block.                          *)
(***************************************************************************)
EXTENDS Integers, Sequences, FiniteSets, TLC

VARIABLES
    pc,            \* position of the run
    env,           \* the process environment and what the imports found
    ai_enabled,    \* self.ai_enabled
    fs,            \* today's two output files: None, or the file's content
    fs0,           \* fs as the run found it
    src_i,         \* number of sources fetched so far
    last_fetch,    \* the page and the stories of the latest fetch (None before)
    fetch_log,     \* the page and the stories of every fetch so far, in order
    all_stories,   \* the NewsStory objects of the run, in collection order
    reply,         \* what the classification model call returned (None before)
    themes,        \* the mapping ai_analyze_stories returned, in key order
    theme_i,       \* number of themes synthesized so far
    synth_log,     \* what each synthesis model call so far returned, in order
    digest_text,   \* the digest under construction, then the final text
    attempt,       \* the loop variable of the Edge TTS retry loop
    retry_delay,   \* the backoff delay, in seconds
    edge_log,      \* what each Edge TTS attempt so far did, in order
    audio_stats,   \* what generate_audio_digest returned (None before)
    result,        \* what generate_daily_ai_digest returned (None before)
    error,         \* the exception that ended the run ("" when none)
    exit_code,     \* None while running, Some(n) once the process has ended
    trace,         \* the external calls, writes and sleeps so far, in order
    runs           \* how the earlier runs of the day ended, in order

vars == <<pc, env, ai_enabled, fs, fs0, src_i, last_fetch, fetch_log, all_stories,
          reply, themes, theme_i, synth_log, digest_text, attempt,
          retry_delay, edge_log, audio_stats, result, error, exit_code, trace,
          runs>>

---------------------------------------------------------------------------
(* Optional values: None is the empty tuple, a value v is <<v>>.           *)

None == <<>>

Some(v) == <<v>>

---------------------------------------------------------------------------
(* Character strings.                                                      *)

UpperChars == <<"A","B","C","D","E","F","G","H","I","J","K","L","M",
                "N","O","P","Q","R","S","T","U","V","W","X","Y","Z">>

LowerChars == <<"a","b","c","d","e","f","g","h","i","j","k","l","m",
                "n","o","p","q","r","s","t","u","v","w","x","y","z">>

Range(s) == { s[i] : i \in DOMAIN s }

Letters == Range(UpperChars) \cup Range(LowerChars)

\* the lower-case form of every letter
LowerOf ==
    [c \in Letters |->
        IF c \in Range(UpperChars)
        THEN LowerChars[CHOOSE i \in DOMAIN UpperChars : UpperChars[i] = c]
        ELSE c]

\* str.lower() on one character
LowerChar(c) == IF c \in Letters THEN LowerOf[c] ELSE c

\* str.lower()
Lower(s) == [i \in 1..Len(s) |-> LowerChar(s[i])]

\* str.isalpha(): non-empty and every character a letter
IsAlpha(s) ==
    /\ Len(s) > 0
    /\ \A i \in 1..Len(s) : s[i] \in Letters

IsSpace(c) == c \in {" ", "\n", "\t"}

RECURSIVE SplitFrom(_, _, _)
SplitFrom(s, cur, words) ==
    IF s = <<>>
    THEN IF cur = <<>> THEN words ELSE Append(words, cur)
    ELSE IF IsSpace(Head(s))
         THEN SplitFrom(Tail(s), <<>>,
                        IF cur = <<>> THEN words ELSE Append(words, cur))
         ELSE SplitFrom(Tail(s), Append(cur, Head(s)), words)

\* str.split(): the maximal runs of non-whitespace characters
Split(s) == SplitFrom(s, <<>>, <<>>)

\* sub in s
Contains(s, sub) ==
    \E k \in 0..(Len(s) - Len(sub)) :
        \A i \in 1..Len(sub) : s[k + i] = sub[i]

\* s.startswith(prefix)
StartsWith(s, prefix) ==
    /\ Len(prefix) <= Len(s)
    /\ \A i \in 1..Len(prefix) : s[i] = prefix[i]

---------------------------------------------------------------------------
(* NewsStory and the headlines of the model.                               *)

NewsStory(title, source) ==
    [title |-> title, source |-> source, theme |-> None,
     significance_score |-> None]

\* keywords: vote, poll, wins
TitleVotePollWins ==
    <<"V","o","t","e"," ","p","o","l","l"," ","w","i","n","s"," ","i","n"," ","U","K">>

\* keywords: vote, poll, rate
TitleVotePollRate ==
    <<"V","O","T","E"," ","p","o","l","l"," ","r","a","t","e"," ","u","p"," ","2","0","2","4">>

\* keywords: poll, rate, bank
TitlePollRateBank ==
    <<"P","o","l","l"," ","r","a","t","e"," ","b","a","n","k"," ","c","u","t"," ","n","o","w">>

\* no keyword: every word is short or not alphabetic
TitleNoKeywords ==
    <<"U","K"," ","P","M"," ","i","n"," ","E","U"," ","r","o","w"," ","2","0","2","4">>

\* keywords: vote, poll, rate, bank
TitleFourA ==
    <<"v","o","t","e"," ","p","o","l","l"," ","r","a","t","e"," ","b","a","n","k">>

\* keywords: vote, poll, wins, rate
TitleFourB ==
    <<"V","o","t","e"," ","P","o","l","l"," ","w","i","n","s"," ","r","a","t","e">>


---------------------------------------------------------------------------
(* ai_analyze_stories: the programmatic dedup and the per-theme sort.      *)

\* set(word.lower() for word in title.split() if len(word) > 3 and word.isalpha())
Keywords(title) ==
    LET words == Split(title)
    IN { Lower(words[i]) :
           i \in { j \in DOMAIN words : Len(words[j]) > 3 /\ IsAlpha(words[j]) } }

\* overlap_threshold = 0.4, in tenths
OverlapThresholdTenths == 4

\* a variant of the overlap test that takes the size of the union to be the
\* sum of the sizes; the dedup properties below do not hold under it
OverlapExceedsSum(a, b, tenths) ==
    10 * Cardinality(a \cap b) > tenths * (Cardinality(a) + Cardinality(b))

\* len(a & b) / len(a | b) > overlap_threshold, for non-empty a and b
OverlapExceeds(a, b, tenths) ==
    10 * Cardinality(a \cap b) > tenths * Cardinality(a \cup b)

\* a variant of the duplicate test that also drops a story at an overlap of
\* exactly the threshold
IsDuplicateAtThreshold(story_keywords, seen_keywords) ==
    \E existing_keywords \in seen_keywords :
        /\ existing_keywords # {}
        /\ story_keywords # {}
        /\ 10 * Cardinality(story_keywords \cap existing_keywords)
               >= OverlapThresholdTenths
                      * Cardinality(story_keywords \cup existing_keywords)

\* a variant of the duplicate test with the threshold of the keyword-only
\* path, 0.5; the overlap bound of the model-assisted path fails under it
IsDuplicateLoose(story_keywords, seen_keywords) ==
    \E existing_keywords \in seen_keywords :
        /\ existing_keywords # {}
        /\ story_keywords # {}
        /\ OverlapExceeds(story_keywords, existing_keywords, 5)

\* the loop over seen_keywords that sets is_duplicate
IsDuplicate(story_keywords, seen_keywords) ==
    \E existing_keywords \in seen_keywords :
        /\ existing_keywords # {}
        /\ story_keywords # {}
        /\ OverlapExceeds(story_keywords, existing_keywords, OverlapThresholdTenths)

\* the theme and significance_score assignments of an accepted story
AcceptStory(stories, i, theme, significance) ==
    [stories EXCEPT ![i].theme = Some(theme),
                    ![i].significance_score = Some(significance)]

\* the loop over one theme's story_analyses; theme_stories holds the
\* accepted stories as positions of all_stories (the objects themselves)
RECURSIVE DedupLoop(_, _, _, _, _)
DedupLoop(stories, theme, story_analyses, theme_stories, seen_keywords) ==
    IF story_analyses = <<>>
    THEN [stories |-> stories, theme_stories |-> theme_stories]
    ELSE LET analysis == Head(story_analyses)
             story_idx == analysis.index - 1
             in_range == 0 <= story_idx /\ story_idx < Len(stories)
             story_keywords == Keywords(stories[story_idx + 1].title)
         IN IF in_range /\ ~IsDuplicate(story_keywords, seen_keywords)
            THEN DedupLoop(
                     AcceptStory(stories, story_idx + 1, theme,
                                 analysis.significance),
                     theme, Tail(story_analyses),
                     Append(theme_stories, story_idx + 1),
                     seen_keywords \cup {story_keywords})
            ELSE DedupLoop(stories, theme, Tail(story_analyses),
                           theme_stories, seen_keywords)

\* key=lambda x: x.significance_score or 0
SortKey(story) ==
    IF story.significance_score = None THEN 0 ELSE story.significance_score[1]

\* one insertion of the stable descending sort: after every entry whose key
\* is at least the new one's
InsertDescending(stories, sorted, i) ==
    LET before == { p \in 1..Len(sorted) :
                      \A q \in 1..p :
                          SortKey(stories[sorted[q]]) >= SortKey(stories[i]) }
        n == Cardinality(before)
    IN SubSeq(sorted, 1, n) \o <<i>> \o SubSeq(sorted, n + 1, Len(sorted))

\* theme_stories.sort(key=..., reverse=True): stable, by the current scores
RECURSIVE SortBySignificance(_, _, _)
SortBySignificance(stories, theme_stories, sorted) ==
    IF theme_stories = <<>> THEN sorted
    ELSE SortBySignificance(stories, Tail(theme_stories),
                            InsertDescending(stories, sorted, Head(theme_stories)))

\* the loop over ai_analysis.items(): a theme enters the mapping only when
\* it kept at least one story
RECURSIVE ThemeLoop(_, _, _)
ThemeLoop(stories, ai_analysis, mapping) ==
    IF ai_analysis = <<>>
    THEN [stories |-> stories, themes |-> mapping]
    ELSE LET item == Head(ai_analysis)
             kept == DedupLoop(stories, item.theme, item.story_analyses,
                               <<>>, {})
         IN ThemeLoop(
                kept.stories, Tail(ai_analysis),
                IF kept.theme_stories # <<>>
                THEN Append(mapping,
                            [theme |-> item.theme,
                             stories |-> SortBySignificance(
                                 kept.stories, kept.theme_stories, <<>>)])
                ELSE mapping)

\* a variant that answers a failed call or an unparsable reply with an
\* empty mapping
AiAnalyzeStoriesLenient(stories, model_reply) ==
    LET r == ThemeLoop(stories, model_reply.ai_analysis, <<>>)
    IN [raised |-> FALSE, stories |-> r.stories, themes |-> r.themes]

\* the body of ai_analyze_stories after its guard: the model call, the
\* parse of the reply and the dedup; "raised" stands for the exception
AiAnalyzeStories(stories, model_reply) ==
    IF model_reply.kind = "json"
    THEN LET r == ThemeLoop(stories, model_reply.ai_analysis, <<>>)
         IN [raised |-> FALSE, stories |-> r.stories, themes |-> r.themes]
    ELSE [raised |-> TRUE, stories |-> stories, themes |-> <<>>]


---------------------------------------------------------------------------
(* fallback_categorization: the keyword-only categorization with its       *)
(* dedup.  No statement of the file calls it.                              *)

\* theme_keywords, in the order of the dictionary
ThemeKeywords ==
    <<
      [theme |-> "politics",
       keywords |->
         { <<"g","o","v","e","r","n","m","e","n","t">>,
           <<"m","i","n","i","s","t","e","r">>,
           <<"p","a","r","l","i","a","m","e","n","t">>,
           <<"e","l","e","c","t","i","o","n">>,
           <<"p","o","l","i","c","y">>,
           <<"m","p">>,
           <<"l","a","b","o","u","r">>,
           <<"c","o","n","s","e","r","v","a","t","i","v","e">> }],
      [theme |-> "economy",
       keywords |->
         { <<"e","c","o","n","o","m","y">>,
           <<"i","n","f","l","a","t","i","o","n">>,
           <<"b","a","n","k">>,
           <<"i","n","t","e","r","e","s","t">>,
           <<"m","a","r","k","e","t">>,
           <<"b","u","s","i","n","e","s","s">>,
           <<"f","i","n","a","n","c","i","a","l">>,
           <<"g","d","p">> }],
      [theme |-> "health",
       keywords |->
         { <<"h","e","a","l","t","h">>,
           <<"n","h","s">>,
           <<"m","e","d","i","c","a","l">>,
           <<"h","o","s","p","i","t","a","l">>,
           <<"c","o","v","i","d">>,
           <<"v","a","c","c","i","n","e">>,
           <<"d","o","c","t","o","r">> }],
      [theme |-> "international",
       keywords |->
         { <<"u","k","r","a","i","n","e">>,
           <<"r","u","s","s","i","a">>,
           <<"c","h","i","n","a">>,
           <<"u","s","a">>,
           <<"e","u","r","o","p","e">>,
           <<"w","a","r">>,
           <<"c","o","n","f","l","i","c","t">> }],
      [theme |-> "climate",
       keywords |->
         { <<"c","l","i","m","a","t","e">>,
           <<"e","n","v","i","r","o","n","m","e","n","t">>,
           <<"g","r","e","e","n">>,
           <<"c","a","r","b","o","n">>,
           <<"r","e","n","e","w","a","b","l","e">>,
           <<"e","n","e","r","g","y">> }],
      [theme |-> "technology",
       keywords |->
         { <<"t","e","c","h","n","o","l","o","g","y">>,
           <<"t","e","c","h">>,
           <<"a","i">>,
           <<"d","i","g","i","t","a","l">>,
           <<"c","y","b","e","r">>,
           <<"i","n","t","e","r","n","e","t">> }],
      [theme |-> "crime",
       keywords |->
         { <<"p","o","l","i","c","e">>,
           <<"c","o","u","r","t">>,
           <<"c","r","i","m","e">>,
           <<"a","r","r","e","s","t">>,
           <<"i","n","v","e","s","t","i","g","a","t","i","o","n">>,
           <<"t","r","i","a","l">> }]
    >>

\* overlap_threshold = 0.5, in tenths
FallbackThresholdTenths == 5

\* any(keyword in story.title.lower() for keyword in keywords)
MatchesTheme(title, keywords) ==
    \E keyword \in keywords : Contains(Lower(title), keyword)

\* a variant of the duplicate test with a threshold of 0.8
IsFallbackDuplicateLoose(story_keywords, seen_keywords) ==
    \E existing_keywords \in seen_keywords :
        /\ existing_keywords # {}
        /\ story_keywords # {}
        /\ OverlapExceeds(story_keywords, existing_keywords, 8)

\* the loop over seen_keywords that sets is_duplicate
IsFallbackDuplicate(story_keywords, seen_keywords) ==
    \E existing_keywords \in seen_keywords :
        /\ existing_keywords # {}
        /\ story_keywords # {}
        /\ OverlapExceeds(story_keywords, existing_keywords,
                          FallbackThresholdTenths)

\* the loop over all_stories for one theme, from position i on;
\* theme_stories holds the accepted stories as positions of all_stories
RECURSIVE FallbackStoryLoop(_, _, _, _, _)
FallbackStoryLoop(stories, item, i, theme_stories, seen_keywords) ==
    IF i > Len(stories)
    THEN [stories |-> stories, theme_stories |-> theme_stories]
    ELSE LET story_keywords == Keywords(stories[i].title)
         IN IF /\ MatchesTheme(stories[i].title, item.keywords)
               /\ ~IsFallbackDuplicate(story_keywords, seen_keywords)
            THEN FallbackStoryLoop(
                     [stories EXCEPT ![i].theme = Some(item.theme)],
                     item, i + 1, Append(theme_stories, i),
                     seen_keywords \cup {story_keywords})
            ELSE FallbackStoryLoop(stories, item, i + 1, theme_stories,
                                   seen_keywords)

\* the loop over theme_keywords.items(): a theme enters the mapping only
\* when it kept two stories or more
RECURSIVE FallbackThemeLoop(_, _, _)
FallbackThemeLoop(stories, items, mapping) ==
    IF items = <<>>
    THEN [stories |-> stories, themes |-> mapping]
    ELSE LET kept == FallbackStoryLoop(stories, Head(items), 1, <<>>, {})
         IN FallbackThemeLoop(
                kept.stories, Tail(items),
                IF Len(kept.theme_stories) >= 2
                THEN Append(mapping, [theme |-> Head(items).theme,
                                      stories |-> kept.theme_stories])
                ELSE mapping)

FallbackCategorization(stories) ==
    FallbackThemeLoop(stories, ThemeKeywords, <<>>)

---------------------------------------------------------------------------
(* The run: what every action shares.                                      *)

Event(op, arg) == [op |-> op, arg |-> arg]

\* a variant in which main returns after the error instead of calling
\* exit(1)
FatalWithoutExit(kind) ==
    /\ pc' = "exited"
    /\ error' = kind
    /\ exit_code' = Some(0)

\* an exception reaches main's except clause, or main sees no result:
\* the process exits with status 1
Fatal(kind) ==
    /\ pc' = "exited"
    /\ error' = kind
    /\ exit_code' = Some(1)

Running == /\ error' = error
           /\ exit_code' = exit_code

---------------------------------------------------------------------------
(* The replies of the classification model call.                           *)

\* "Use only these themes: ..." of the prompt
PromptThemes ==
    {"politics", "economy", "health", "international", "climate",
     "technology", "crime"}

\* the top-level keys a reply may use: a theme the prompt names, and a key
\* it does not name
ThemeKeys == {"politics", "sport"}

\* the significance values a reply may use
Significances == {5, 9}

\* the number of analyses in one reply
MaxEntries == 3

BoundedSeq(S, n) == UNION { [1..k -> S] : k \in 0..n }

\* one analysis of a reply with its theme key; index is 1-based and may
\* fall outside the story list on either side
FlatEntries(n_stories) ==
    [theme : ThemeKeys, index : 0..(n_stories + 1),
     significance : Significances]

\* a JSON object holds each key once: the entries of a theme are adjacent
Contiguous(flat) ==
    \A i, k \in DOMAIN flat :
        (i < k /\ flat[i].theme = flat[k].theme)
            => \A j \in i..k : flat[j].theme = flat[i].theme

RECURSIVE GroupByTheme(_, _)
GroupByTheme(flat, acc) ==
    IF flat = <<>> THEN acc
    ELSE LET e == Head(flat)
             a == [index |-> e.index, significance |-> e.significance]
             n == Len(acc)
         IN IF n > 0 /\ acc[n].theme = e.theme
            THEN GroupByTheme(Tail(flat),
                     [acc EXCEPT ![n].story_analyses = Append(@, a)])
            ELSE GroupByTheme(Tail(flat),
                     Append(acc, [theme |-> e.theme, story_analyses |-> <<a>>]))

\* the parsed replies: ai_analysis.items() in key order
JsonReplies(n_stories) ==
    { [kind |-> "json", ai_analysis |-> GroupByTheme(flat, <<>>)] :
        flat \in { f \in BoundedSeq(FlatEntries(n_stories), MaxEntries) :
                     Contiguous(f) } }

\* the call raised ("api_error"), or its text does not parse and holds no
\* {...} for the regex ("no_json"), or what the regex extracts does not
\* parse either ("invalid_json")
FailedReplies ==
    { [kind |-> "api_error", ai_analysis |-> <<>>],
      [kind |-> "no_json", ai_analysis |-> <<>>],
      [kind |-> "invalid_json", ai_analysis |-> <<>>] }

AllReplies(n_stories) == JsonReplies(n_stories) \cup FailedReplies

---------------------------------------------------------------------------
(* The digest text of create_ai_enhanced_digest, for language en_GB.       *)

WhitespaceTokens == {" ", "  ", "\n", "\n\n", " \n"}

\* len(text.split()): the maximal runs of non-whitespace tokens
WordCount(text) ==
    Cardinality({ i \in DOMAIN text :
                    /\ text[i] \notin WhitespaceTokens
                    /\ (i = 1 \/ text[i - 1] \in WhitespaceTokens) })

\* str.strip()
Strip(text) ==
    LET solid == { i \in DOMAIN text : text[i] \notin WhitespaceTokens }
    IN IF solid = {} THEN <<>>
       ELSE SubSeq(text, CHOOSE i \in solid : \A j \in solid : i <= j,
                         CHOOSE i \in solid : \A j \in solid : i >= j)

\* date.today().strftime("%B %d, %Y")
Today == <<"November", " ", "01,", " ", "2026">>

\* f"{greeting}. Here's your UK news digest for {today}, brought to you by
\* Dynamic Devices. "
Intro ==
    <<"Good", " ", "morning.", " ", "Here's", " ", "your", " ", "UK", " ",
      "news", " ", "digest", " ", "for", " ">>
    \o Today \o
    <<",", " ", "brought", " ", "to", " ", "you", " ", "by", " ",
      "Dynamic", " ", "Devices.", " ">>

Closing ==
    <<"\n\n", "This", " ", "digest", " ", "provides", " ", "a", " ",
      "synthesis", " ", "of", " ", "today's", " ", "most", " ",
      "significant", " ", "news", " ", "stories.", " ",
      "All", " ", "content", " ", "is", " ", "original", " ", "analysis",
      " ", "designed", " ", "for", " ", "accessibility.", " ",
      "For", " ", "complete", " ", "coverage,", " ", "visit", " ", "news",
      " ", "websites", " ", "directly.">>

NoThemesText == <<"No", " ", "significant", " ", "news", " ", "themes", " ",
                  "identified", " ", "today.">>

---------------------------------------------------------------------------
(* The text of the classification reply and its parsing in                 *)
(* ai_analyze_stories.  A reply text is a tuple of tokens written one      *)
(* after the other: the two fence marks, the JSON punctuation, a key, the  *)
(* two members of one analysis, a word of prose, a newline.                *)

\* "fence" stands for the three backquote characters of a Markdown fence
FenceJson == "<fence>json"

Fence == "<fence>"

\* what is left of FenceJson without its first three characters
FenceJsonRest == "json"

KeyPolitics == "\"politics\":"

EntryMembers == "\"index\": 1, \"significance\": 9"

\* str.startswith('```json') and the slice [7:]
StripFenceJson(text) ==
    IF text # <<>> /\ Head(text) = FenceJson THEN Tail(text) ELSE text

\* str.startswith('```') and the slice [3:]
StripFenceStart(text) ==
    IF text # <<>> /\ Head(text) = Fence THEN Tail(text)
    ELSE IF text # <<>> /\ Head(text) = FenceJson
         THEN <<FenceJsonRest>> \o Tail(text)
         ELSE text

\* str.endswith('```') and the slice [:-3]
StripFenceEnd(text) ==
    IF text # <<>> /\ text[Len(text)] = Fence
    THEN SubSeq(text, 1, Len(text) - 1)
    ELSE text

\* response_text and then cleaned_text
CleanedText(text) ==
    Strip(StripFenceEnd(StripFenceStart(StripFenceJson(Strip(text)))))

\* the values json.loads gives: dictionaries of no member, of the member
\* "politics", or of the members "index" and "significance"; lists of no or
\* one element
EmptyDict == [type |-> "dict", key |-> "", inner |-> <<>>]

PoliticsDict(value) == [type |-> "dict", key |-> "politics", inner |-> <<value>>]

EntryDict == [type |-> "dict", key |-> "index", inner |-> <<>>]

List(values) == [type |-> "list", key |-> "", inner |-> values]

IsJsonWhitespace(token) == token \in WhitespaceTokens

\* the JSON decoder from the token at position p: whether a value starts
\* there, the value, and the position after it
RECURSIVE Decode(_, _)
Decode(tokens, p) ==
    LET n == Len(tokens)
        failed == [ok |-> FALSE, next |-> p, value |-> EmptyDict]
    IN IF p + 1 > n THEN failed
       ELSE IF tokens[p] = "{"
       THEN IF tokens[p + 1] = "}"
            THEN [ok |-> TRUE, next |-> p + 2, value |-> EmptyDict]
            ELSE IF tokens[p + 1] = EntryMembers
            THEN IF p + 2 <= n /\ tokens[p + 2] = "}"
                 THEN [ok |-> TRUE, next |-> p + 3, value |-> EntryDict]
                 ELSE failed
            ELSE IF tokens[p + 1] = KeyPolitics
            THEN LET r == Decode(tokens, p + 2)
                 IN IF r.ok /\ r.next <= n /\ tokens[r.next] = "}"
                    THEN [ok |-> TRUE, next |-> r.next + 1,
                          value |-> PoliticsDict(r.value)]
                    ELSE failed
            ELSE failed
       ELSE IF tokens[p] = "["
       THEN IF tokens[p + 1] = "]"
            THEN [ok |-> TRUE, next |-> p + 2, value |-> List(<<>>)]
            ELSE LET r == Decode(tokens, p + 1)
                 IN IF r.ok /\ r.next <= n /\ tokens[r.next] = "]"
                    THEN [ok |-> TRUE, next |-> r.next + 1,
                          value |-> List(<<r.value>>)]
                    ELSE failed
       ELSE failed

NotJsonWhitespace(token) == ~IsJsonWhitespace(token)

\* json.loads: one value and nothing else but whitespace, or JSONDecodeError
JsonLoads(text) ==
    LET tokens == SelectSeq(text, NotJsonWhitespace)
        r == Decode(tokens, 1)
    IN IF r.ok /\ r.next = Len(tokens) + 1
       THEN [ok |-> TRUE, value |-> r.value]
       ELSE [ok |-> FALSE, value |-> EmptyDict]

\* re.search(r'\{.*\}', cleaned_text, re.DOTALL): from the first opening
\* brace to the last closing brace after it
GreedySearch(text) ==
    LET opens == { i \in DOMAIN text : text[i] = "{" }
        first == CHOOSE i \in opens : \A j \in opens : i <= j
        closes == { i \in DOMAIN text : text[i] = "}" /\ i > first }
    IN IF opens = {} \/ closes = {} THEN None
       ELSE Some(SubSeq(text, first,
                        CHOOSE i \in closes : \A j \in closes : i >= j))

\* ai_analysis.items() and the reads of the loops over it: the analysis in
\* key order, or the AttributeError, TypeError or KeyError of a value that
\* is no dictionary of lists of analyses
ItemsOf(value) ==
    LET ill == [ok |-> FALSE, ai_analysis |-> <<>>]
        well(analyses) ==
            [ok |-> TRUE,
             ai_analysis |-> <<[theme |-> "politics",
                                story_analyses |-> analyses]>>]
    IN IF value.type # "dict" THEN ill
       ELSE IF value = EmptyDict THEN [ok |-> TRUE, ai_analysis |-> <<>>]
       ELSE IF value.key # "politics" THEN ill
       ELSE LET listed == value.inner[1]
            IN IF listed = EmptyDict \/ listed = List(<<>>)
               THEN well(<<>>)
               ELSE IF listed = List(<<EntryDict>>)
                    THEN well(<<[index |-> 1, significance |-> 9]>>)
                    ELSE ill

\* the reply record of a parsed value
ParsedReply(text, steps, value) ==
    [kind |-> IF ItemsOf(value).ok THEN "json" ELSE "ill_shaped",
     ai_analysis |-> ItemsOf(value).ai_analysis,
     text |-> text, steps |-> steps]

\* a variant of the parse that returns an empty analysis when the regex
\* finds no braces
ParseReplyNoJsonAsEmpty(text) ==
    LET cleaned == CleanedText(text)
        direct == JsonLoads(cleaned)
        json_match == GreedySearch(cleaned)
    IN IF direct.ok
       THEN ParsedReply(text, <<"json.loads">>, direct.value)
       ELSE IF json_match # None
            THEN IF JsonLoads(json_match[1]).ok
                 THEN ParsedReply(text, <<"json.loads", "re.search",
                                          "json.loads">>,
                                  JsonLoads(json_match[1]).value)
                 ELSE [kind |-> "invalid_json", ai_analysis |-> <<>>,
                       text |-> text,
                       steps |-> <<"json.loads", "re.search", "json.loads">>]
            ELSE ParsedReply(text, <<"json.loads", "re.search">>, EmptyDict)

\* the statements between the model call and the dedup: the cleaning, the
\* direct parse, and in its except clause the regex search and the parse of
\* what it matched; steps lists the parser calls made
ParseReply(text) ==
    LET cleaned == CleanedText(text)
        direct == JsonLoads(cleaned)
        json_match == GreedySearch(cleaned)
    IN IF direct.ok
       THEN ParsedReply(text, <<"json.loads">>, direct.value)
       ELSE IF json_match # None
            THEN IF JsonLoads(json_match[1]).ok
                 THEN ParsedReply(text, <<"json.loads", "re.search",
                                          "json.loads">>,
                                  JsonLoads(json_match[1]).value)
                 ELSE [kind |-> "invalid_json", ai_analysis |-> <<>>,
                       text |-> text,
                       steps |-> <<"json.loads", "re.search", "json.loads">>]
            ELSE [kind |-> "no_json", ai_analysis |-> <<>>, text |-> text,
                  steps |-> <<"json.loads", "re.search">>]

\* the pieces the reply texts are made of
ReplySegments ==
    { <<"{", KeyPolitics, "[", "{", EntryMembers, "}", "]", "}">>,
      <<"{", "}">>,
      <<"{", EntryMembers, "}">>,
      <<"[", "]">>,
      <<"{">>,
      <<"}">>,
      <<"Sure">>,
      <<"\n">>,
      <<FenceJson>>,
      <<Fence>> }

\* the number of segments of one reply text
MaxSegments == 3

RECURSIVE Flatten(_)
Flatten(segments) ==
    IF segments = <<>> THEN <<>>
    ELSE Head(segments) \o Flatten(Tail(segments))

\* the texts the classification call may return
ResponseTexts ==
    { Flatten(segments) : segments \in BoundedSeq(ReplySegments, MaxSegments) }

\* the replies of the classification call: it raised, or it returned a text
TextReplies ==
    { [kind |-> "api_error", ai_analysis |-> <<>>, text |-> <<>>,
       steps |-> <<>>] }
    \cup { ParseReply(text) : text \in ResponseTexts }

---------------------------------------------------------------------------
(* ai_analyze_stories as called by create_ai_enhanced_digest.              *)

\* a variant of the entry test that looks at the client only; an empty
\* story list then reaches the model
AnalysisRefusedUnlessEnabled(enabled, stories) == ~enabled

\* `if not self.ai_enabled or not all_stories`
AnalysisRefused(enabled, stories) == ~enabled \/ stories = <<>>

UNCHANGED_Classify ==
    UNCHANGED <<runs, env, ai_enabled, fs, fs0, src_i, last_fetch, fetch_log, theme_i, synth_log,
                attempt, retry_delay, edge_log, audio_stats, result>>

ClassifyWith(Replies) ==
    /\ pc = "classify"
    /\ UNCHANGED_Classify
    /\ IF AnalysisRefused(ai_enabled, all_stories)
       THEN /\ Fatal("AnalysisRequired")
            /\ UNCHANGED <<all_stories, reply, themes, digest_text, trace>>
       ELSE \E model_reply \in Replies :
              \E r \in {AiAnalyzeStories(all_stories, model_reply)} :
                 /\ reply' = Some(model_reply)
                 /\ trace' = Append(trace, Event("model", 0))
                 /\ IF r.raised
                    THEN /\ Fatal("AnalysisFailed")
                         /\ UNCHANGED <<all_stories, themes, digest_text>>
                    ELSE /\ Running
                         /\ all_stories' = r.stories
                         /\ themes' = r.themes
                         /\ IF r.themes = <<>>
                            THEN /\ digest_text' = NoThemesText
                                 /\ pc' = "write_text"
                            ELSE /\ digest_text' = Intro
                                 /\ pc' = "synthesize"


---------------------------------------------------------------------------
(* fetch_headlines_from_source.                                            *)

\* the first sources of LANGUAGE_CONFIGS['en_GB'], in configuration order
Sources == <<"BBC News", "Guardian">>

MinHeadlineLen == 15

MaxHeadlineLen == 200

MaxElementsPerSelector == 15

MaxStoriesPerSource == 12

\* ('cookie', 'accept', 'subscribe', 'sign up', 'follow us')
BoilerplatePrefixes ==
    { <<"c","o","o","k","i","e">>,
      <<"a","c","c","e","p","t">>,
      <<"s","u","b","s","c","r","i","b","e">>,
      <<"s","i","g","n"," ","u","p">>,
      <<"f","o","l","l","o","w"," ","u","s">> }

\* a variant of the acceptance test whose lower length bound is inclusive
HeadlineAcceptedFromMinLen(text, seen_headlines) ==
    /\ text # <<>>
    /\ Len(text) >= MinHeadlineLen
    /\ Len(text) < MaxHeadlineLen
    /\ text \notin seen_headlines
    /\ ~\E prefix \in BoilerplatePrefixes : StartsWith(Lower(text), prefix)

\* the condition under which an element's text becomes a story
HeadlineAccepted(text, seen_headlines) ==
    /\ text # <<>>
    /\ Len(text) > MinHeadlineLen
    /\ Len(text) < MaxHeadlineLen
    /\ text \notin seen_headlines
    /\ ~\E prefix \in BoilerplatePrefixes : StartsWith(Lower(text), prefix)

\* a variant of the loop that ends only once the list has passed the cap
RECURSIVE ElementLoopBreakAbove(_, _, _, _)
ElementLoopBreakAbove(source_name, elements, stories, seen_headlines) ==
    IF elements = <<>> THEN stories
    ELSE LET text == Head(elements)
         IN IF HeadlineAccepted(text, seen_headlines)
            THEN LET appended == Append(stories, NewsStory(text, source_name))
                 IN IF Len(appended) > MaxStoriesPerSource
                    THEN appended
                    ELSE ElementLoopBreakAbove(source_name, Tail(elements),
                                               appended,
                                               seen_headlines \cup {text})
            ELSE ElementLoopBreakAbove(source_name, Tail(elements), stories,
                                       seen_headlines)

\* the loop over one selector's elements; it ends early at the cap
RECURSIVE ElementLoop(_, _, _, _)
ElementLoop(source_name, elements, stories, seen_headlines) ==
    IF elements = <<>> THEN stories
    ELSE LET text == Head(elements)
         IN IF HeadlineAccepted(text, seen_headlines)
            THEN LET appended == Append(stories, NewsStory(text, source_name))
                 IN IF Len(appended) >= MaxStoriesPerSource
                    THEN appended
                    ELSE ElementLoop(source_name, Tail(elements), appended,
                                     seen_headlines \cup {text})
            ELSE ElementLoop(source_name, Tail(elements), stories,
                             seen_headlines)

\* elements[:15]
FirstElements(elements) ==
    SubSeq(elements, 1, IF Len(elements) < MaxElementsPerSelector
                        THEN Len(elements) ELSE MaxElementsPerSelector)

\* the loop over the selectors; it stops at the first that yields a story
\* (stories and seen_headlines are both empty whenever it goes on)
RECURSIVE SelectorLoop(_, _)
SelectorLoop(source_name, selected) ==
    IF selected = <<>> THEN <<>>
    ELSE LET stories == ElementLoop(source_name,
                                    FirstElements(Head(selected)), <<>>, {})
         IN IF stories # <<>> THEN stories
            ELSE SelectorLoop(source_name, Tail(selected))

\* a variant that returns the stories the selectors yield whether or not
\* the call raised
FetchHeadlinesKeepingPartial(source_name, page) ==
    SelectorLoop(source_name, page.selected)

\* page.kind = "error": requests.get, raise_for_status or the extraction
\* raised, and the except clause returns []; page.selected[k] holds the
\* stripped texts of the elements the k-th selector matches
FetchHeadlinesFromSource(source_name, page) ==
    IF page.kind = "html" THEN SelectorLoop(source_name, page.selected)
    ELSE <<>>

---------------------------------------------------------------------------
(* The pages a source may serve.                                           *)

\* a text of n characters that starts with (a cut of) prefix
Padded(prefix, n) ==
    [i \in 1..n |-> IF i <= Len(prefix) THEN prefix[i] ELSE "x"]

HeadlinePrefixes ==
    { <<>>,
      <<"V","o","t","e"," ">>,
      <<"C","o","o","k","i","e"," ">>,
      <<"S","I","G","N"," ","U","P"," ">> }

HeadlineLengths == {0, 14, 15, 16, 199, 200}

\* plain texts of every length above, and texts of 16 characters with every
\* prefix above
CandidateTexts ==
    { Padded(<<>>, n) : n \in HeadlineLengths }
    \cup { Padded(prefix, 16) : prefix \in HeadlinePrefixes }

\* the number of elements of one page, over all its selectors
MaxPageElements == 2

\* the pages of one or two selectors with at most MaxPageElements elements
HtmlPages(Texts) ==
    { [kind |-> "html", selected |-> <<els>>] :
        els \in BoundedSeq(Texts, MaxPageElements) }
    \cup
    UNION { { [kind |-> "html",
               selected |-> <<SubSeq(els, 1, k), SubSeq(els, k + 1, Len(els))>>] :
                k \in 0..Len(els) } :
            els \in BoundedSeq(Texts, MaxPageElements) }

\* a fetch that raised before anything was extracted
ErrorPage == [kind |-> "error", selected |-> <<>>]

\* the fetches that raised, whatever the page held
ErrorPages(Texts) ==
    { [kind |-> "error", selected |-> page.selected] :
        page \in HtmlPages(Texts) }

AllPages == HtmlPages(CandidateTexts) \cup ErrorPages(CandidateTexts)

\* the k-th of a family of distinct headlines, of 16 + k characters
Headline(k) == Padded(<<>>, 16 + k)

\* the numbers of elements a selector matches on the long pages
LongPageLengths == {11, 12, 13, 15, 16, 20}

\* pages on which one selector matches many headlines: n distinct
\* headlines; the same after a selector that matches two elements without
\* a headline; n elements of which the first two are no headlines; and n
\* elements that hold every headline twice
LongPages ==
    { [kind |-> "html", selected |-> <<[k \in 1..n |-> Headline(k)]>>] :
        n \in LongPageLengths }
    \cup
    { [kind |-> "html",
       selected |-> << <<Padded(<<>>, 14), <<>>>>,
                       [k \in 1..n |-> Headline(k)] >>] :
        n \in LongPageLengths }
    \cup
    { [kind |-> "html",
       selected |-> <<[k \in 1..n |->
                          IF k <= 2 THEN Padded(<<>>, 15) ELSE Headline(k)]>>] :
        n \in LongPageLengths }
    \cup
    { [kind |-> "html",
       selected |-> <<[k \in 1..n |-> Headline((k + 1) \div 2)]>>] :
        n \in LongPageLengths }

\* the pages of the pipeline runs: a failed fetch, a page without a
\* headline, and pages with one headline
PipelinePages ==
    { ErrorPage,
      [kind |-> "error", selected |-> <<<<TitleVotePollRate>>>>],
      [kind |-> "html", selected |-> <<<<>>, <<Padded(<<>>, 14)>>>>],
      [kind |-> "html", selected |-> <<<<TitleVotePollWins>>>>],
      [kind |-> "html", selected |-> <<<<>>, <<TitleVotePollRate>>>>] }

---------------------------------------------------------------------------
(* The fetch loop of generate_daily_ai_digest: one source per step, then   *)
(* the politeness sleep; after the last source an empty pool ends the run. *)

UNCHANGED_Fetch ==
    UNCHANGED <<runs, env, ai_enabled, fs, fs0, reply, themes, theme_i,
                synth_log, digest_text, attempt, retry_delay, edge_log, audio_stats, result>>

\* a variant of the iteration that takes the sources last to first
NextSourceReversed(fetched) == Len(Sources) - fetched

\* `for source_name, url in self.sources.items()`: the position in Sources
\* of the source fetched after `fetched` sources
NextSource(fetched) == fetched + 1

\* a variant of the loop's end without the test of the pool: an empty pool
\* goes on to the digest
FetchWithoutPoolTest(Pages) ==
    /\ pc = "fetch"
    /\ src_i < Len(Sources)
    /\ UNCHANGED_Fetch
    /\ \E page \in Pages :
         \E stories \in {FetchHeadlinesFromSource(
                             Sources[NextSource(src_i)], page)} :
            /\ last_fetch' = Some([page |-> page, stories |-> stories])
            /\ fetch_log' = Append(fetch_log,
                                   [page |-> page, stories |-> stories])
            /\ all_stories' = all_stories \o stories
            /\ src_i' = src_i + 1
            /\ trace' = trace \o <<Event("fetch", NextSource(src_i)),
                                   Event("sleep", 1)>>
            /\ Running
            /\ pc' = IF src_i + 1 < Len(Sources) THEN pc ELSE "classify"

FetchWith(Pages) ==
    /\ pc = "fetch"
    /\ src_i < Len(Sources)
    /\ UNCHANGED_Fetch
    /\ \E page \in Pages :
         \E stories \in {FetchHeadlinesFromSource(
                             Sources[NextSource(src_i)], page)} :
            /\ last_fetch' = Some([page |-> page, stories |-> stories])
            /\ fetch_log' = Append(fetch_log,
                                   [page |-> page, stories |-> stories])
            /\ all_stories' = all_stories \o stories
            /\ src_i' = src_i + 1
            /\ trace' = trace \o <<Event("fetch", NextSource(src_i)),
                                   Event("sleep", 1)>>
            /\ IF src_i + 1 < Len(Sources)
               THEN Running /\ pc' = pc
               ELSE IF all_stories \o stories = <<>>
                    THEN Fatal("NoStories")
                    ELSE Running /\ pc' = "classify"


---------------------------------------------------------------------------
(* main and GitHubAINewsDigest.__init__ with setup_github_ai.              *)

UNCHANGED_Construct ==
    UNCHANGED <<runs, env, fs, fs0, src_i, last_fetch, fetch_log, all_stories, reply, themes,
                theme_i, synth_log, digest_text, attempt, retry_delay, edge_log, audio_stats,
                result, trace>>

\* a variant of the key test that accepts an empty key
KeyUsableWhenSet == env.ANTHROPIC_API_KEY # None

\* `if anthropic_key and ANTHROPIC_AVAILABLE`: the key is set and not empty
KeyUsable == env.ANTHROPIC_API_KEY # None /\ env.ANTHROPIC_API_KEY # Some("")

\* the client is built, or the constructor raises: either way before
\* generate_daily_ai_digest is entered
Construct ==
    /\ pc = "main"
    /\ UNCHANGED_Construct
    /\ IF KeyUsable /\ env.ANTHROPIC_AVAILABLE
       THEN \E client_ok \in BOOLEAN :
              IF client_ok
              THEN /\ ai_enabled' = TRUE
                   /\ pc' = "guard"
                   /\ Running
              ELSE /\ ai_enabled' = ai_enabled
                   /\ Fatal("InitFailed")
       ELSE /\ ai_enabled' = ai_enabled
            /\ Fatal("KeyRequired")

---------------------------------------------------------------------------
(* The output files and the idempotency guard of generate_daily_ai_digest. *)

\* f"{output_dir}/news_digest_ai_{today_str}.txt"
TextFilename ==
    [dir |-> "docs/en_GB", name |-> "news_digest_ai", date |-> "2026_11_01",
     ext |-> "txt"]

\* f"{audio_dir}/news_digest_ai_{today_str}.mp3"
AudioFilename ==
    [dir |-> "docs/en_GB/audio", name |-> "news_digest_ai",
     date |-> "2026_11_01", ext |-> "mp3"]

\* an audio file is the sequence of the chunks written to it
RECURSIVE SizeOf(_)
SizeOf(chunks) ==
    IF chunks = <<>> THEN 0 ELSE Head(chunks).bytes + SizeOf(Tail(chunks))

\* os.path.getsize(audio_filename) if os.path.exists(audio_filename) else 0
AudioSize(files) ==
    IF files.audio # None THEN SizeOf(files.audio[1]) ELSE 0

\* the size above which an existing audio file counts as a real render
MinAudioBytes == 50000

BytesPerKb == 1024

Ratio(num, den) == [num |-> num, den |-> den]

\* a variant of the guard that does not look at the size of the audio file
GuardSkipsAnySize(files) ==
    /\ files.text # None
    /\ files.audio # None

\* a variant of the guard that wants more than 50 KiB of audio
GuardSkipsAboveKiB(files) ==
    /\ files.text # None
    /\ files.audio # None
    /\ AudioSize(files) > 50 * BytesPerKb

\* the condition of the cost-optimization branch
GuardSkips(files) ==
    /\ files.text # None
    /\ files.audio # None
    /\ AudioSize(files) > MinAudioBytes

UNCHANGED_Guard ==
    UNCHANGED <<runs, env, ai_enabled, fs, fs0, src_i, last_fetch, fetch_log, all_stories,
                reply, themes, theme_i, synth_log, digest_text, attempt, retry_delay, edge_log,
                audio_stats, error, trace>>

\* the guard; when it skips, generate_daily_ai_digest returns the existing
\* files and main ends normally
Guard ==
    /\ pc = "guard"
    /\ UNCHANGED_Guard
    /\ IF GuardSkips(fs)
       THEN /\ result' = Some([audio_file |-> AudioFilename,
                               text_file |-> TextFilename,
                               ai_enabled |-> ai_enabled,
                               regenerated |-> FALSE,
                               size_kb |-> Ratio(AudioSize(fs), BytesPerKb)])
            /\ pc' = "exited"
            /\ exit_code' = Some(0)
       ELSE /\ result' = result
            /\ pc' = "fetch"
            /\ exit_code' = exit_code

---------------------------------------------------------------------------
(* ai_synthesize_content, once per theme of the mapping, and the assembly  *)
(* of the digest in create_ai_enhanced_digest.                             *)

\* what the synthesis call may return: an exception, a blank text, a text
SynthReplies ==
    { [kind |-> "api_error", text |-> <<>>],
      [kind |-> "text", text |-> <<" \n">>],
      [kind |-> "text",
       text |-> <<"  ", "In", " ", "politics", " ", "news", " ", "today,",
                  " ", "a", " ", "vote", " ", "was", " ", "held.", " \n">>] }

UNCHANGED_Synthesize ==
    UNCHANGED <<runs, env, ai_enabled, fs, fs0, src_i, last_fetch, fetch_log, all_stories,
                reply, themes, attempt, retry_delay, edge_log, audio_stats, result>>

\* a variant in which a failed synthesis call gives no text instead of
\* raising
SynthesisRaisesNever(synth_reply) == FALSE

\* the except clause of ai_synthesize_content: the model call raised
SynthesisRaises(synth_reply) == synth_reply.kind = "api_error"

\* every list of the mapping is non-empty, so `if stories:` holds and
\* ai_synthesize_content makes its model call
SynthesizeWith(Replies) ==
    /\ pc = "synthesize"
    /\ theme_i < Len(themes)
    /\ UNCHANGED_Synthesize
    /\ trace' = Append(trace, Event("model", theme_i + 1))
    /\ \E synth_reply \in Replies :
         /\ synth_log' = Append(synth_log, synth_reply)
         /\ IF SynthesisRaises(synth_reply)
            THEN /\ Fatal("SynthesisFailed")
                 /\ UNCHANGED <<theme_i, digest_text>>
            ELSE LET theme_content == Strip(synth_reply.text)
                     added == IF theme_content # <<>>
                              THEN digest_text \o <<"\n\n">> \o theme_content
                              ELSE digest_text
                 IN /\ Running
                    /\ theme_i' = theme_i + 1
                    /\ IF theme_i + 1 < Len(themes)
                       THEN /\ digest_text' = added
                            /\ pc' = pc
                       ELSE /\ digest_text' = added \o Closing
                            /\ pc' = "write_text"

---------------------------------------------------------------------------
(* The text file write of generate_daily_ai_digest.                        *)

UNCHANGED_WriteText ==
    UNCHANGED <<runs, env, ai_enabled, fs0, src_i, last_fetch, fetch_log, all_stories, reply,
                themes, theme_i, synth_log, digest_text, attempt, retry_delay, edge_log,
                audio_stats, result>>

\* open(text_filename, 'w') and the writes of the header and the digest;
\* generate_audio_digest is entered next
WriteText ==
    /\ pc = "write_text"
    /\ UNCHANGED_WriteText
    /\ fs' = [fs EXCEPT !.text =
                 Some([ai_analysis |-> IF ai_enabled THEN "ENABLED"
                                       ELSE "DISABLED",
                       body |-> digest_text])]
    /\ trace' = Append(trace, Event("write_text", 0))
    /\ pc' = "edge_tts"
    /\ Running


---------------------------------------------------------------------------
(* generate_audio_digest: the Edge TTS retry loop.                         *)

\* max_retries = 3
MaxRetries == 3

\* retry_delay = 10
InitialRetryDelay == 10

AuthMarker401 == <<"4","0","1">>

AuthMarkerAuthentication ==
    <<"a","u","t","h","e","n","t","i","c","a","t","i","o","n">>

AuthMarkerHandshake == <<"h","a","n","d","s","h","a","k","e">>

\* a variant of the classification that also retries connection errors
IsAuthErrorOrConnection(error_msg) ==
    \/ Contains(error_msg, AuthMarker401)
    \/ Contains(Lower(error_msg), AuthMarkerAuthentication)
    \/ Contains(Lower(error_msg), AuthMarkerHandshake)
    \/ Contains(Lower(error_msg), <<"c","o","n","n","e","c","t","i","o","n">>)

\* a variant of the classification that takes every error for an
\* authentication error
IsAuthErrorAlways(error_msg) == TRUE

\* "401" in error_msg or "authentication" in error_msg.lower()
\*                    or "handshake" in error_msg.lower()
IsAuthError(error_msg) ==
    \/ Contains(error_msg, AuthMarker401)
    \/ Contains(Lower(error_msg), AuthMarkerAuthentication)
    \/ Contains(Lower(error_msg), AuthMarkerHandshake)

\* a variant of the loop test that allows one more attempt
RetriesLeftOneMore(n) == n < MaxRetries

\* `if attempt < max_retries - 1`, attempt counting from 0
RetriesLeft(n) == n < MaxRetries - 1

\* a variant of the backoff that keeps the delay
NextRetryDelayFlat(delay) == delay

\* retry_delay *= 2
NextRetryDelay(delay) == delay * 2

\* a variant of the environment test that accepts any value that is set
FallbackAllowedWhenSet(environment) == environment.GITHUB_ACTIONS # None

\* os.environ.get('GITHUB_ACTIONS') == 'true'
FallbackAllowed(environment) == environment.GITHUB_ACTIONS = Some("true")

\* the error messages of the model: three of the authentication class, one
\* for each marker, and one that is not
MessageStatus401 ==
    <<"I","n","v","a","l","i","d"," ","r","e","s","p","o","n","s","e"," ",
      "s","t","a","t","u","s"," ","4","0","1">>

MessageHandshake ==
    <<"W","S","S"," ","H","a","n","d","s","h","a","k","e"," ",
      "f","a","i","l","e","d">>

MessageAuthentication ==
    <<"A","U","T","H","E","N","T","I","C","A","T","I","O","N"," ",
      "r","e","q","u","i","r","e","d">>

MessageConnectionReset ==
    <<"C","o","n","n","e","c","t","i","o","n"," ","r","e","s","e","t"," ",
      "b","y"," ","p","e","e","r">>

ErrorMessages ==
    {MessageStatus401, MessageHandshake, MessageAuthentication,
     MessageConnectionReset}

\* the size of one streamed audio chunk, in bytes
ChunkBytes == 30000

\* one chunk of the audio file: who wrote it, in which attempt, its position
\* in that attempt's stream of audio chunks, and its size
Chunk(by, n, seq, bytes) ==
    [by |-> by, attempt |-> n, seq |-> seq, bytes |-> bytes]

\* the numbers of audio chunks a stream may deliver before it ends or fails
StreamLengths == {0, 1, 2}

\* one attempt: it raises before the file is opened, or after the file was
\* opened (and truncated) and some chunks were written, or it completes
EdgeOutcomes ==
    { [ok |-> TRUE, opened |-> TRUE, chunks |-> n, message |-> <<>>] :
        n \in StreamLengths \ {0} }
    \cup
    { [ok |-> FALSE, opened |-> TRUE, chunks |-> n, message |-> m] :
        n \in StreamLengths, m \in ErrorMessages }
    \cup
    { [ok |-> FALSE, opened |-> FALSE, chunks |-> 0, message |-> m] :
        m \in ErrorMessages }

\* the file opened for appending: what an earlier attempt wrote stays
StreamIntoAppending(files, outcome, n) ==
    IF outcome.opened
    THEN [files EXCEPT !.audio =
             Some((IF files.audio = None THEN <<>> ELSE files.audio[1]) \o
                  [k \in 1..outcome.chunks |->
                      Chunk("edge", n, k, ChunkBytes)])]
    ELSE files

\* open(output_filename, "wb") and the file.write calls of one attempt: the
\* audio chunks of the stream are written in the order they arrive (chunks of
\* other types are not written and are not counted in outcome.chunks)
StreamInto(files, outcome, n) ==
    IF outcome.opened
    THEN [files EXCEPT !.audio =
             Some([k \in 1..outcome.chunks |->
                      Chunk("edge", n, k, ChunkBytes)])]
    ELSE files

UNCHANGED_Edge ==
    UNCHANGED <<runs, env, ai_enabled, fs0, src_i, last_fetch, fetch_log, all_stories, reply,
                themes, theme_i, synth_log, digest_text, audio_stats, result>>

\* one pass of the retry loop, with the sleep or the raise that ends it
EdgeAttemptWith(Outcomes) ==
    /\ pc = "edge_tts"
    /\ UNCHANGED_Edge
    /\ \E outcome \in Outcomes :
         /\ fs' = StreamInto(fs, outcome, attempt + 1)
         /\ edge_log' = Append(edge_log, outcome)
         /\ IF outcome.ok
            THEN /\ trace' = Append(trace, Event("edge_tts", attempt + 1))
                 /\ pc' = "analyze"
                 /\ UNCHANGED <<attempt, retry_delay>>
                 /\ Running
            ELSE IF IsAuthError(outcome.message)
                 THEN IF RetriesLeft(attempt)
                      THEN /\ trace' = trace \o
                                <<Event("edge_tts", attempt + 1),
                                  Event("sleep", retry_delay)>>
                           /\ retry_delay' = NextRetryDelay(retry_delay)
                           /\ attempt' = attempt + 1
                           /\ pc' = pc
                           /\ Running
                      ELSE /\ trace' = Append(trace,
                                              Event("edge_tts", attempt + 1))
                           /\ UNCHANGED <<attempt, retry_delay>>
                           /\ IF FallbackAllowed(env)
                              THEN pc' = "gtts" /\ Running
                              ELSE Fatal("EdgeAuthFailed")
                 ELSE /\ trace' = Append(trace, Event("edge_tts", attempt + 1))
                      /\ UNCHANGED <<attempt, retry_delay>>
                      /\ Fatal("EdgeNonRetryable")

---------------------------------------------------------------------------
(* The audio statistics and the end of a regenerating run.                 *)

\* a variant of the estimate at three words per second
EstimatedStatsAtThree(files, text) ==
    [filename |-> AudioFilename,
     duration |-> Ratio(WordCount(text), 3),
     words |-> WordCount(text),
     wps |-> Ratio(3, 1),
     size_kb |-> Ratio(AudioSize(files), BytesPerKb)]

\* duration_s = word_count / 2.0 and words_per_second = 2.0
EstimatedStats(files, text) ==
    [filename |-> AudioFilename,
     duration |-> Ratio(WordCount(text), 2),
     words |-> WordCount(text),
     wps |-> Ratio(2, 1),
     size_kb |-> Ratio(AudioSize(files), BytesPerKb)]

\* duration_s = len(audio) / 1000.0 with len(audio) in milliseconds, and
\* words_per_second = word_count / duration_s if duration_s > 0 else 0
MeasuredStats(files, text, millis) ==
    [filename |-> AudioFilename,
     duration |-> Ratio(millis, 1000),
     words |-> WordCount(text),
     wps |-> IF millis > 0 THEN Ratio(WordCount(text) * 1000, millis)
             ELSE Ratio(0, 1),
     size_kb |-> Ratio(AudioSize(files), BytesPerKb)]

\* the return value of a regenerating run; main then ends normally
Regenerated(stats) ==
    /\ audio_stats' = Some(stats)
    /\ result' = Some([audio_file |-> AudioFilename,
                       text_file |-> TextFilename,
                       stats |-> stats,
                       ai_enabled |-> ai_enabled,
                       stories_analyzed |-> Len(all_stories),
                       regenerated |-> TRUE])
    /\ pc' = "exited"
    /\ error' = error
    /\ exit_code' = Some(0)

\* what AudioSegment.from_mp3 and len(audio) give: an exception, or the
\* duration in milliseconds
Measurements ==
    { [raised |-> TRUE, millis |-> 0],
      [raised |-> FALSE, millis |-> 0],
      [raised |-> FALSE, millis |-> 7000] }

UNCHANGED_Analyze ==
    UNCHANGED <<runs, env, ai_enabled, fs, fs0, src_i, last_fetch, fetch_log, all_stories,
                reply, themes, theme_i, synth_log, digest_text, attempt, retry_delay, edge_log>>

\* the analysis after a successful Edge TTS attempt
AnalyzeAudio ==
    /\ pc = "analyze"
    /\ UNCHANGED_Analyze
    /\ \E m \in Measurements :
         /\ trace' = Append(trace, Event("measure", IF m.raised THEN 0 ELSE 1))
         /\ Regenerated(IF m.raised
                        THEN EstimatedStats(fs, digest_text)
                        ELSE MeasuredStats(fs, digest_text, m.millis))

---------------------------------------------------------------------------
(* generate_gtts_fallback.                                                 *)

\* the fallback saves a complete file, or raises before it opened the file,
\* or raises after it opened (and truncated) it
GttsOutcomes == {"saved", "failed_before_open", "failed_after_open"}

UNCHANGED_Gtts ==
    UNCHANGED <<runs, env, ai_enabled, fs0, src_i, last_fetch, fetch_log, all_stories, reply,
                themes, theme_i, synth_log, digest_text, attempt, retry_delay, edge_log>>

GttsFallback ==
    /\ pc = "gtts"
    /\ UNCHANGED_Gtts
    /\ trace' = Append(trace, Event("gtts", 0))
    /\ \E outcome \in GttsOutcomes :
         LET saved == [fs EXCEPT !.audio =
                          Some(<<Chunk("gtts", 0, 1, ChunkBytes),
                                 Chunk("gtts", 0, 2, ChunkBytes)>>)]
             emptied == [fs EXCEPT !.audio = Some(<<>>)]
         IN IF outcome = "saved"
            THEN /\ fs' = saved
                 /\ Regenerated(EstimatedStats(saved, digest_text))
            ELSE /\ fs' = IF outcome = "failed_after_open" THEN emptied ELSE fs
                 /\ UNCHANGED <<audio_stats, result>>
                 /\ Fatal("BothTtsFailed")

---------------------------------------------------------------------------
(* The runs of main.                                                       *)

Environments ==
    [ANTHROPIC_API_KEY : {None, Some(""), Some("sk-ant-key")},
     ANTHROPIC_AVAILABLE : {TRUE},
     GITHUB_ACTIONS : {None, Some("true"), Some("false")}]
    \cup
    [ANTHROPIC_API_KEY : {Some(""), Some("sk-ant-key")},
     ANTHROPIC_AVAILABLE : {FALSE},
     GITHUB_ACTIONS : {Some("true")}]

OldText == [ai_analysis |-> "ENABLED", body |-> NoThemesText]

\* the files a run may find: none, or those an earlier run of the day left
InitialFiles ==
    [text : {None, Some(OldText)},
     audio : {None,
              Some(<<Chunk("old", 0, 1, MinAudioBytes)>>),
              Some(<<Chunk("old", 0, 1, MinAudioBytes + 1)>>),
              Some(<<Chunk("old", 0, 1, 50 * BytesPerKb + 1)>>)}]

\* nothing fetched, classified, synthesized or rendered yet
Idle ==
    /\ last_fetch = None
    /\ fetch_log = <<>>
    /\ reply = None
    /\ themes = <<>>
    /\ theme_i = 0
    /\ synth_log = <<>>
    /\ digest_text = <<>>
    /\ attempt = 0
    /\ retry_delay = InitialRetryDelay
    /\ edge_log = <<>>
    /\ audio_stats = None
    /\ result = None
    /\ error = ""
    /\ exit_code = None
    /\ trace = <<>>

Init ==
    /\ runs = <<>>
    /\ pc = "main"
    /\ env \in Environments
    /\ fs \in InitialFiles
    /\ fs0 = fs
    /\ ai_enabled = FALSE
    /\ src_i = 0
    /\ all_stories = <<>>
    /\ Idle

\* the classification replies of the pipeline runs
PipelineReplies ==
    FailedReplies \cup
    { [kind |-> "json", ai_analysis |-> a] :
        a \in { <<>>,
                <<[theme |-> "politics",
                   story_analyses |-> <<[index |-> 1, significance |-> 9],
                                        [index |-> 2, significance |-> 5]>>]>>,
                <<[theme |-> "economy",
                   story_analyses |-> <<[index |-> 2, significance |-> 5]>>],
                  [theme |-> "politics",
                   story_analyses |-> <<[index |-> 1, significance |-> 9]>>]>> } }

FetchSource == FetchWith(PipelinePages)

Classify == ClassifyWith(PipelineReplies)

Synthesize == SynthesizeWith(SynthReplies)

\* the Edge TTS outcomes of the pipeline runs: one failure message of each
\* class
PipelineEdgeOutcomes ==
    { o \in EdgeOutcomes :
        o.ok \/ o.message \in {MessageStatus401, MessageConnectionReset} }

EdgeAttempt == EdgeAttemptWith(PipelineEdgeOutcomes)

Next ==
    \/ Construct
    \/ Guard
    \/ FetchSource
    \/ Classify
    \/ Synthesize
    \/ WriteText
    \/ EdgeAttempt
    \/ GttsFallback
    \/ AnalyzeAudio

Spec == Init /\ [][Next]_vars


---------------------------------------------------------------------------
(* ai_analyze_stories on its own: every story list below, every reply.     *)

StoryOf(title, n) == NewsStory(title, Sources[1 + (n % Len(Sources))])

\* a list of titles as the stories of alternating sources
StoriesOf(titles) == [n \in 1..Len(titles) |-> StoryOf(titles[n], n)]

StoryLists ==
    { StoriesOf(titles) :
        titles \in { <<>>,
                     <<TitleVotePollWins, TitleVotePollRate, TitleFourB>>,
                     <<TitleVotePollWins, TitleFourA, TitleNoKeywords>>,
                     <<TitleVotePollWins, TitleVotePollRate, TitlePollRateBank>>,
                     <<TitleNoKeywords, TitlePollRateBank, TitleNoKeywords>> } }

InitAnalyze ==
    /\ runs = <<>>
    /\ pc = "classify"
    /\ env = [ANTHROPIC_API_KEY |-> Some("sk-ant-key"),
              ANTHROPIC_AVAILABLE |-> TRUE, GITHUB_ACTIONS |-> None]
    /\ fs = [text |-> None, audio |-> None]
    /\ fs0 = fs
    /\ ai_enabled = TRUE
    /\ src_i = Len(Sources)
    /\ all_stories \in StoryLists
    /\ Idle

ClassifyAny == ClassifyWith(AllReplies(Len(all_stories)))

SpecAnalyze == InitAnalyze /\ [][ClassifyAny]_vars

---------------------------------------------------------------------------
(* fetch_headlines_from_source on its own: the last source, every page.    *)

InitFetch ==
    /\ runs = <<>>
    /\ pc = "fetch"
    /\ env = [ANTHROPIC_API_KEY |-> Some("sk-ant-key"),
              ANTHROPIC_AVAILABLE |-> TRUE, GITHUB_ACTIONS |-> None]
    /\ fs = [text |-> None, audio |-> None]
    /\ fs0 = fs
    /\ ai_enabled = TRUE
    /\ src_i = Len(Sources) - 1
    /\ all_stories = <<>>
    /\ Idle

FetchAny == FetchWith(AllPages \cup LongPages)

SpecFetch == InitFetch /\ [][FetchAny]_vars

---------------------------------------------------------------------------
(* The parse of the classification reply on its own: one story list, every *)
(* reply text.                                                             *)

InitParse ==
    /\ runs = <<>>
    /\ pc = "classify"
    /\ env = [ANTHROPIC_API_KEY |-> Some("sk-ant-key"),
              ANTHROPIC_AVAILABLE |-> TRUE, GITHUB_ACTIONS |-> None]
    /\ fs = [text |-> None, audio |-> None]
    /\ fs0 = fs
    /\ ai_enabled = TRUE
    /\ src_i = Len(Sources)
    /\ all_stories = StoriesOf(<<TitleVotePollWins, TitleVotePollRate>>)
    /\ Idle

ClassifyText == ClassifyWith(TextReplies)

SpecParse == InitParse /\ [][ClassifyText]_vars

---------------------------------------------------------------------------
(* fallback_categorization on its own: every list of the headlines below.  *)

\* keywords: bank, rate; theme keyword: bank
TitleBankRate ==
    <<"B","a","n","k"," ","r","a","t","e"," ","u","p">>

\* no keyword; theme keywords: mp (politics), gdp (economy)
TitleMpGdp ==
    <<"U","K"," ","M","P"," ","o","n"," ","G","D","P">>

\* keywords: bank, with; theme keywords: bank (economy), mp (politics)
TitleBankMp ==
    <<"B","a","n","k"," ","r","o","w"," ","w","i","t","h"," ","M","P">>

FallbackTitles ==
    {TitleFourA, TitlePollRateBank, TitleBankRate, TitleMpGdp, TitleBankMp,
     TitleVotePollWins}

\* the number of stories of one call
MaxFallbackStories == 3

FallbackStoryLists ==
    { StoriesOf(titles) : titles \in BoundedSeq(FallbackTitles,
                                                MaxFallbackStories) }

InitFallback ==
    /\ runs = <<>>
    /\ pc = "fallback"
    /\ env = [ANTHROPIC_API_KEY |-> Some("sk-ant-key"),
              ANTHROPIC_AVAILABLE |-> TRUE, GITHUB_ACTIONS |-> None]
    /\ fs = [text |-> None, audio |-> None]
    /\ fs0 = fs
    /\ ai_enabled = TRUE
    /\ src_i = Len(Sources)
    /\ all_stories \in FallbackStoryLists
    /\ Idle

\* one call of fallback_categorization
Fallback ==
    /\ pc = "fallback"
    /\ \E r \in {FallbackCategorization(all_stories)} :
         /\ all_stories' = r.stories
         /\ themes' = r.themes
    /\ pc' = "categorized"
    /\ UNCHANGED <<runs, env, ai_enabled, fs, fs0, src_i, last_fetch, fetch_log,
                   reply, theme_i, synth_log, digest_text, attempt,
                   retry_delay, edge_log, audio_stats, result, error,
                   exit_code, trace>>

SpecFallback == InitFallback /\ [][Fallback]_vars


---------------------------------------------------------------------------
(* generate_audio_digest on its own: a run that has written its text file  *)
(* renders the audio, under every outcome of every Edge TTS attempt.       *)

\* the classification reply and the synthesis texts of the runs below
RenderCases ==
    { [reply |-> [kind |-> "json", ai_analysis |-> <<>>], synth |-> <<>>],
      [reply |-> [kind |-> "json",
                  ai_analysis |->
                      <<[theme |-> "politics",
                         story_analyses |->
                             <<[index |-> 1, significance |-> 9]>>]>>],
       synth |-> <<<<"A", " ", "vote", " ", "was", " ", "held.">>>>] }

\* the digest create_ai_enhanced_digest assembles from the synthesis texts
DigestOf(synth) ==
    IF synth = <<>> THEN NoThemesText
    ELSE Intro \o <<"\n\n">> \o synth[1] \o Closing

InitAudio ==
    /\ runs = <<>>
    /\ pc = "edge_tts"
    /\ env \in { e \in Environments :
                   /\ e.ANTHROPIC_AVAILABLE
                   /\ e.ANTHROPIC_API_KEY \notin {None, Some("")} }
    /\ fs0 \in { f \in InitialFiles : f.text = None <=> f.audio = None }
    /\ ~GuardSkips(fs0)
    /\ ai_enabled = TRUE
    /\ src_i = Len(Sources)
    /\ fetch_log = <<[page |-> ErrorPage, stories |-> <<>>],
                     [page |-> [kind |-> "html",
                                selected |-> <<<<TitleVotePollWins>>>>],
                      stories |-> StoriesOf(<<TitleVotePollWins>>)]>>
    /\ last_fetch = Some(fetch_log[2])
    /\ \E c \in RenderCases :
         \E r \in {AiAnalyzeStories(StoriesOf(<<TitleVotePollWins>>),
                                     c.reply)} :
            /\ all_stories = r.stories
            /\ reply = Some(c.reply)
            /\ themes = r.themes
            /\ theme_i = Len(r.themes)
            /\ synth_log = [k \in 1..Len(c.synth) |->
                               [kind |-> "text", text |-> c.synth[k]]]
            /\ digest_text = DigestOf(c.synth)
            /\ trace = <<Event("fetch", 1), Event("sleep", 1),
                         Event("fetch", 2), Event("sleep", 1),
                         Event("model", 0)>>
                       \o [k \in 1..Len(c.synth) |-> Event("model", k)]
                       \o <<Event("write_text", 0)>>
    /\ fs = [fs0 EXCEPT !.text = Some([ai_analysis |-> "ENABLED",
                                        body |-> digest_text])]
    /\ attempt = 0
    /\ retry_delay = InitialRetryDelay
    /\ edge_log = <<>>
    /\ audio_stats = None
    /\ result = None
    /\ error = ""
    /\ exit_code = None

EdgeAttemptAny == EdgeAttemptWith(EdgeOutcomes)

NextAudio == EdgeAttemptAny \/ GttsFallback \/ AnalyzeAudio

SpecAudio == InitAudio /\ [][NextAudio]_vars

\* every call of the renderer returns or raises: a step that is possible is
\* eventually taken
SpecAudioFair == SpecAudio /\ WF_vars(NextAudio)

---------------------------------------------------------------------------
(* Two runs of main on the same day, for the same language, with the       *)
(* files untouched in between.                                             *)

\* the process is started again after the first run of the day has ended;
\* it finds the files as that run left them
NextRun ==
    /\ pc = "exited"
    /\ runs = <<>>
    /\ runs' = <<[error |-> error, exit_code |-> exit_code,
                  result |-> result, found |-> fs0]>>
    /\ pc' = "main"
    /\ fs0' = fs
    /\ ai_enabled' = FALSE
    /\ src_i' = 0
    /\ all_stories' = <<>>
    /\ last_fetch' = None
    /\ fetch_log' = <<>>
    /\ reply' = None
    /\ themes' = <<>>
    /\ theme_i' = 0
    /\ synth_log' = <<>>
    /\ digest_text' = <<>>
    /\ attempt' = 0
    /\ retry_delay' = InitialRetryDelay
    /\ edge_log' = <<>>
    /\ audio_stats' = None
    /\ result' = None
    /\ error' = ""
    /\ exit_code' = None
    /\ trace' = <<>>
    /\ UNCHANGED <<env, fs>>

\* the pages, the classification replies and the environments of the runs
\* of the day
DayPages ==
    { ErrorPage, [kind |-> "html", selected |-> <<<<TitleVotePollWins>>>>] }

DayReplies ==
    { [kind |-> "api_error", ai_analysis |-> <<>>],
      [kind |-> "json", ai_analysis |-> <<>>],
      [kind |-> "json",
       ai_analysis |-> <<[theme |-> "politics",
                          story_analyses |->
                              <<[index |-> 1, significance |-> 9]>>]>>] }

DayEnvironments ==
    { e \in Environments :
        /\ e.ANTHROPIC_AVAILABLE
        /\ e.ANTHROPIC_API_KEY = Some("sk-ant-key")
        /\ e.GITHUB_ACTIONS # None }

InitDay ==
    /\ runs = <<>>
    /\ pc = "main"
    /\ env \in DayEnvironments
    /\ fs \in { f \in InitialFiles :
                  /\ f.text = None <=> f.audio = None
                  /\ AudioSize(f) \in {0, MinAudioBytes, MinAudioBytes + 1} }
    /\ fs0 = fs
    /\ ai_enabled = FALSE
    /\ src_i = 0
    /\ all_stories = <<>>
    /\ Idle

\* the Edge TTS outcomes of the runs of the day: complete streams of one
\* and of two chunks, an authentication failure before the file is opened,
\* and failures of either class after chunks were written
DayEdgeOutcomes ==
    { o \in PipelineEdgeOutcomes :
        \/ o.ok
        \/ ~o.opened /\ o.message = MessageStatus401
        \/ o.opened /\ o.chunks = 2 }

DayFetch == FetchWith(DayPages)

DayEdgeAttempt == EdgeAttemptWith(DayEdgeOutcomes)

DayClassify == ClassifyWith(DayReplies)

NextDay ==
    \/ Construct
    \/ Guard
    \/ DayFetch
    \/ DayClassify
    \/ Synthesize
    \/ WriteText
    \/ DayEdgeAttempt
    \/ GttsFallback
    \/ AnalyzeAudio
    \/ NextRun

SpecDay == InitDay /\ [][NextDay]_vars

---------------------------------------------------------------------------
(* Properties of ai_analyze_stories, checked under SpecAnalyze.            *)

\* the keyword sets of the titles of the story lists
KeywordsOfTitle ==
    [title \in { list[n].title : n \in 1..3, list \in StoryLists \ {<<>>} }
        |-> Keywords(title)]

\* the keyword set of the story at position i of all_stories
StoryKeywords(i) == KeywordsOfTitle[all_stories[i].title]

\* |a & b| / |a | b| <= 0.4, cross-multiplied; two empty sets share nothing
\* and count as overlap 0
OverlapAtMostTwoFifths(a, b) ==
    5 * Cardinality(a \cap b) <= 2 * Cardinality(a \cup b)

\* |a & b| / |a | b| > 0.4, cross-multiplied
OverlapAboveTwoFifths(a, b) ==
    5 * Cardinality(a \cap b) > 2 * Cardinality(a \cup b)

\* ai_analyze_stories has returned its mapping
AnalysisReturned == reply # None /\ reply[1].kind = "json" /\ error = ""

\* the positions of an item's story_analyses whose index names a story
InRangeEntries(item) ==
    { p \in DOMAIN item.story_analyses :
        item.story_analyses[p].index \in 1..Len(all_stories) }

\* C1: in the mapping ai_analyze_stories returns, any two distinct stories
\* retained in the same theme bucket have keyword sets whose Jaccard overlap
\* is at most 0.4, whatever the story list and the parsed reply.
C1_RetainedOverlapAtMostTwoFifths ==
    \A t \in DOMAIN themes :
        \A i, j \in DOMAIN themes[t].stories :
            themes[t].stories[i] # themes[t].stories[j]
            => OverlapAtMostTwoFifths(StoryKeywords(themes[t].stories[i]),
                                      StoryKeywords(themes[t].stories[j]))

\* a returned bucket that kept two stories at overlap exactly 0.4 and dropped
\* a third that the reply listed with them
C1_Witness ==
    /\ AnalysisReturned
    /\ \E t \in DOMAIN themes :
         /\ \E i, j \in DOMAIN themes[t].stories :
              LET a == StoryKeywords(themes[t].stories[i])
                  b == StoryKeywords(themes[t].stories[j])
              IN /\ i # j
                 /\ a # {}
                 /\ b # {}
                 /\ 5 * Cardinality(a \cap b) = 2 * Cardinality(a \cup b)
         /\ \E item \in Range(reply[1].ai_analysis) :
              /\ item.theme = themes[t].theme
              /\ Cardinality(InRangeEntries(item)) > Len(themes[t].stories)

\* the items of the reply whose in-range stories overlap pairwise above 0.4
\* and are listed with descending significance
AllAlikeDescending(item) ==
    /\ InRangeEntries(item) # {}
    /\ \A p, q \in InRangeEntries(item) :
         p < q =>
           /\ OverlapAboveTwoFifths(
                  StoryKeywords(item.story_analyses[p].index),
                  StoryKeywords(item.story_analyses[q].index))
           /\ item.story_analyses[p].significance
                  >= item.story_analyses[q].significance

\* the story of the first in-range entry of an item
FirstListed(item) ==
    item.story_analyses[CHOOSE p \in InRangeEntries(item) :
                            \A q \in InRangeEntries(item) : p <= q].index

\* C9: when the stories the reply lists under one theme overlap pairwise
\* above 0.4 and are listed with descending significance, the returned
\* bucket of that theme holds exactly one story, the first listed, which has
\* the highest significance; all the others are dropped.
C9_AlikeStoriesCollapseToFirst ==
    AnalysisReturned =>
        \A item \in Range(reply[1].ai_analysis) :
            AllAlikeDescending(item) =>
                \E t \in DOMAIN themes :
                    /\ themes[t].theme = item.theme
                    /\ themes[t].stories = <<FirstListed(item)>>

\* a reply that lists three different, pairwise alike stories under one
\* theme, with significance going down, and a bucket of one story
C9_Witness ==
    /\ AnalysisReturned
    /\ \E item \in Range(reply[1].ai_analysis) :
         /\ AllAlikeDescending(item)
         /\ Cardinality({ item.story_analyses[p].index :
                            p \in InRangeEntries(item) }) = 3
         /\ \E p, q \in InRangeEntries(item) :
              item.story_analyses[p].significance
                  > item.story_analyses[q].significance
         /\ \E t \in DOMAIN themes :
              /\ themes[t].theme = item.theme
              /\ Len(themes[t].stories) = 1

\* C10: called with an empty story list, ai_analyze_stories raises before
\* any model call; it never returns a mapping (empty or not) for empty input.
C10_EmptyInputRaisesBeforeModelCall ==
    (all_stories = <<>> /\ pc # "classify") =>
        /\ pc = "exited"
        /\ error = "AnalysisRequired"
        /\ reply = None
        /\ themes = <<>>
        /\ \A k \in DOMAIN trace : trace[k].op # "model"

\* the call on the empty list has been made and has raised
C10_Witness ==
    /\ all_stories = <<>>
    /\ pc = "exited"
    /\ error = "AnalysisRequired"
    /\ exit_code = Some(1)

\* the significance a story carries when the mapping is returned
CurrentSignificance(i) == SortKey(all_stories[i])

\* C18 as stated: in the returned mapping every theme's list is in
\* non-increasing order of the stories' significance_score as it is when
\* the mapping is returned, whatever the parsed reply holds.
C18_BucketsSortedBySignificance ==
    AnalysisReturned =>
        \A t \in DOMAIN themes :
            \A i, j \in DOMAIN themes[t].stories :
                i < j => CurrentSignificance(themes[t].stories[i])
                             >= CurrentSignificance(themes[t].stories[j])

\* the number of times the classifier assigned theme and significance_score
\* of the story at position i: once for each place it has in a bucket
Assignments(i) ==
    Cardinality({ place \in (DOMAIN themes) \X (1..MaxEntries) :
                    /\ place[2] \in DOMAIN themes[place[1]].stories
                    /\ themes[place[1]].stories[place[2]] = i })

\* C19 as stated: the classifier assigns theme and significance_score of
\* each story at most once, whatever the parsed reply holds, also when it
\* lists a story under several themes or several times under one.
C19_FieldsAssignedAtMostOnce ==
    AnalysisReturned =>
        \A i \in DOMAIN all_stories : Assignments(i) <= 1

\* C20 as stated: every key of the returned mapping is one of the seven
\* theme names, whatever top-level keys the reply holds.
C20_KeysAreTheSevenThemes ==
    AnalysisReturned =>
        \A t \in DOMAIN themes : themes[t].theme \in PromptThemes

---------------------------------------------------------------------------
(* Properties of fetch_headlines_from_source, checked under SpecFetch.     *)

\* the call has been made on an HTML page
FetchedHtml == last_fetch # None /\ last_fetch[1].page.kind = "html"

\* the elements of the first selector of the fetched page
FirstSelectorTexts == last_fetch[1].page.selected[1]

\* the titles of the stories the call returned
FetchedTitles ==
    { last_fetch[1].stories[k].title : k \in DOMAIN last_fetch[1].stories }

\* the loop comes to the element at position i: it is one of the first 15
\* of its selector, and fewer than 12 of the elements before it are stories
Examined(i) ==
    /\ i <= 15
    /\ Cardinality({ t \in FetchedTitles :
                       \E j \in 1..(i - 1) : FirstSelectorTexts[j] = t }) < 12

\* the element at position i is a candidate: the loop comes to it, no
\* earlier element has its text, and its text has no boilerplate prefix
UnseenPlainCandidate(i) ==
    /\ Examined(i)
    /\ \A j \in 1..(i - 1) : FirstSelectorTexts[j] # FirstSelectorTexts[i]
    /\ ~\E prefix \in BoilerplatePrefixes :
           StartsWith(Lower(FirstSelectorTexts[i]), prefix)

\* the candidates of the fetched page are accepted exactly when their
\* length is at least `least` and below 200
AcceptedLengthRangeFrom(least) ==
    FetchedHtml =>
        \A i \in DOMAIN FirstSelectorTexts :
            UnseenPlainCandidate(i) =>
                (FirstSelectorTexts[i] \in FetchedTitles
                 <=> /\ least <= Len(FirstSelectorTexts[i])
                     /\ Len(FirstSelectorTexts[i]) < 200)

\* C7 as stated: an unseen candidate without boilerplate prefix is accepted
\* exactly when 15 <= length < 200 (14 and 200 rejected, 15 and 199
\* accepted).
C7_AcceptedRangeFrom15 == AcceptedLengthRangeFrom(15)

\* C7: an unseen candidate without boilerplate prefix is accepted exactly
\* when 16 <= length < 200: lengths 14, 15 and 200 are rejected, lengths 16
\* and 199 are accepted.
C7_AcceptedRangeFrom16 == AcceptedLengthRangeFrom(16)

\* a fetched page whose first selector holds a plain text of 15 characters
\* and one of 16, of which only the second became a story
C7_Witness ==
    /\ FetchedHtml
    /\ \E i, j \in DOMAIN FirstSelectorTexts :
         /\ UnseenPlainCandidate(i)
         /\ UnseenPlainCandidate(j)
         /\ Len(FirstSelectorTexts[i]) = 15
         /\ Len(FirstSelectorTexts[j]) = 16
         /\ FirstSelectorTexts[i] \notin FetchedTitles
         /\ FirstSelectorTexts[j] \in FetchedTitles

\* the texts of the first selector of the fetched page that matches an
\* element the loop accepts: the selector the stories come from
YieldingSelector ==
    LET sel == last_fetch[1].page.selected
        yielding == { k \in DOMAIN sel :
                        \E i \in DOMAIN sel[k] :
                            HeadlineAccepted(sel[k][i], {}) }
    IN IF yielding = {} THEN <<>>
       ELSE sel[CHOOSE k \in yielding : \A j \in yielding : k <= j]

\* the different headlines among the first n elements of the selector the
\* stories come from
HeadlinesAmong(n) ==
    { YieldingSelector[i] :
        i \in { j \in DOMAIN YieldingSelector :
                  j <= n /\ HeadlineAccepted(YieldingSelector[j], {}) } }

\* C22: fetch_headlines_from_source returns at most 12 stories for any
\* page, whatever number of elements the selectors match.
C22_AtMostTwelveStoriesPerSource ==
    last_fetch # None =>
        /\ Len(last_fetch[1].stories) <= 12
        /\ Len(all_stories) <= 12

\* a page whose selector matches 13 or more different headlines among its
\* first 15 elements, of which the call returned the first 12
C22_Witness ==
    /\ FetchedHtml
    /\ Cardinality(HeadlinesAmong(15)) >= 13
    /\ Len(last_fetch[1].stories) = 12
    /\ \A k \in 1..12 : last_fetch[1].stories[k].title = YieldingSelector[k]

---------------------------------------------------------------------------
(* Properties of generate_audio_digest, checked under SpecAudio.           *)

\* the events of the run after its text file was written
RenderTrace ==
    SubSeq(trace,
           1 + (CHOOSE k \in DOMAIN trace : trace[k].op = "write_text"),
           Len(trace))

\* the messages that hold "401", or "authentication" or "handshake" in any
\* case
AuthenticationClass ==
    {MessageStatus401, MessageHandshake, MessageAuthentication}

\* every Edge TTS call so far raised an authentication-class error
AllAttemptsFailedAuth ==
    /\ edge_log # <<>>
    /\ \A k \in DOMAIN edge_log :
         ~edge_log[k].ok /\ edge_log[k].message \in AuthenticationClass

\* three attempts, a sleep of 10 seconds after the first and of 20 seconds
\* after the second, none after the third
ThreeAttemptsWithBackoff ==
    <<Event("edge_tts", 1), Event("sleep", 10),
      Event("edge_tts", 2), Event("sleep", 20),
      Event("edge_tts", 3)>>

\* C2: when every Edge TTS call raises an authentication-class error, the
\* renderer makes exactly 3 attempts, sleeps 10 seconds after the first and
\* 20 seconds after the second, does not sleep after the third, and only
\* then calls the gTTS fallback (GITHUB_ACTIONS is 'true') or raises.
C2_AuthFailuresThreeAttemptsThenFallbackOrRaise ==
    (AllAttemptsFailedAuth /\ pc # "edge_tts") =>
        /\ Len(edge_log) = 3
        /\ SubSeq(RenderTrace, 1, 5) = ThreeAttemptsWithBackoff
        /\ IF env.GITHUB_ACTIONS = Some("true")
           THEN \/ pc = "gtts" /\ RenderTrace = ThreeAttemptsWithBackoff
                \/ /\ pc = "exited"
                   /\ RenderTrace = Append(ThreeAttemptsWithBackoff,
                                           Event("gtts", 0))
           ELSE /\ pc = "exited"
                /\ error = "EdgeAuthFailed"
                /\ RenderTrace = ThreeAttemptsWithBackoff

\* three authentication failures with one message of each marker, outside
\* CI, where the third raises
C2_Witness ==
    /\ AllAttemptsFailedAuth
    /\ { edge_log[k].message : k \in DOMAIN edge_log } = AuthenticationClass
    /\ env.GITHUB_ACTIONS = Some("false")
    /\ pc = "exited"
    /\ error = "EdgeAuthFailed"

\* C3: when the first Edge TTS call raises an error that is not of the
\* authentication class, the renderer makes exactly 1 attempt, does not
\* sleep, does not call the gTTS fallback, and raises, whatever
\* GITHUB_ACTIONS is.
C3_OtherErrorRaisesAtOnce ==
    (/\ edge_log # <<>>
     /\ ~edge_log[1].ok
     /\ edge_log[1].message \notin AuthenticationClass) =>
        /\ Len(edge_log) = 1
        /\ RenderTrace = <<Event("edge_tts", 1)>>
        /\ pc = "exited"
        /\ error = "EdgeNonRetryable"
        /\ exit_code = Some(1)

\* a connection reset on the first attempt, in CI
C3_Witness ==
    /\ edge_log = <<[ok |-> FALSE, opened |-> FALSE, chunks |-> 0,
                     message |-> MessageConnectionReset]>>
    /\ env.GITHUB_ACTIONS = Some("true")
    /\ pc = "exited"
    /\ error = "EdgeNonRetryable"

\* generate_gtts_fallback has been called
FallbackInvoked == \E k \in DOMAIN trace : trace[k].op = "gtts"

\* C6: whatever the Edge TTS outcomes, the gTTS fallback is called only if
\* GITHUB_ACTIONS is 'true', all 3 attempts were made and the last failed
\* with an authentication-class error; when GITHUB_ACTIONS is not 'true',
\* exhausting the 3 attempts raises and the fallback is never called.
C6_FallbackOnlyInCiAfterThreeAuthFailures ==
    /\ (pc = "gtts" \/ FallbackInvoked) =>
           /\ env.GITHUB_ACTIONS = Some("true")
           /\ Len(edge_log) = 3
           /\ ~edge_log[3].ok
           /\ edge_log[3].message \in AuthenticationClass
    /\ (/\ env.GITHUB_ACTIONS # Some("true")
        /\ Len(edge_log) = 3
        /\ ~edge_log[3].ok) =>
           /\ pc = "exited"
           /\ error \in {"EdgeAuthFailed", "EdgeNonRetryable"}
           /\ exit_code = Some(1)
           /\ ~FallbackInvoked

\* the fallback has run in CI after three authentication failures
C6_Witness ==
    /\ FallbackInvoked
    /\ env.GITHUB_ACTIONS = Some("true")
    /\ Len(edge_log) = 3
    /\ pc = "exited"
    /\ exit_code = Some(0)

\* the measurement of the rendered file raised
MeasurementRaised == \E k \in DOMAIN trace : trace[k] = Event("measure", 0)

\* C8: when Edge TTS rendered the audio and measuring its duration raises,
\* the renderer does not raise and returns a duration of word_count / 2.0
\* seconds and exactly 2.0 words per second, word_count being the number of
\* whitespace-separated words of the digest text.
C8_MeasurementFailureFallsBackToEstimate ==
    MeasurementRaised =>
        /\ pc = "exited"
        /\ error = ""
        /\ exit_code = Some(0)
        /\ audio_stats # None
        /\ audio_stats[1].words = WordCount(digest_text)
        /\ 2 * audio_stats[1].duration.num
               = WordCount(digest_text) * audio_stats[1].duration.den
        /\ audio_stats[1].wps.num = 2 * audio_stats[1].wps.den

\* a render of a digest of an odd number of words at the second attempt,
\* and a measurement that raised
C8_Witness ==
    /\ MeasurementRaised
    /\ Len(edge_log) = 2
    /\ edge_log[2].ok
    /\ WordCount(digest_text) % 2 = 1
    /\ audio_stats # None

---------------------------------------------------------------------------
(* Properties of generate_daily_ai_digest, checked under Spec.             *)

\* today's text and audio files exist when the run starts, and the audio
\* file has more than 50000 bytes
ExistingDigest ==
    /\ fs0.text # None
    /\ fs0.audio # None
    /\ AudioSize(fs0) > 50000

\* generate_daily_ai_digest has been entered and has left its guard
PastGuard == ai_enabled /\ pc \notin {"main", "guard"}

\* C4: if today's text and audio files exist and the audio file exceeds
\* 50 KB when generate_daily_ai_digest starts, the run fetches no source,
\* calls no model and no TTS, writes neither file, and returns, with
\* regenerated = False, the text and audio paths a regenerating run returns.
C4_ExistingDigestSkipsTheRun ==
    /\ (ExistingDigest /\ PastGuard) =>
           /\ pc = "exited"
           /\ trace = <<>>
           /\ last_fetch = None
           /\ reply = None
           /\ edge_log = <<>>
           /\ fs = fs0
           /\ error = ""
           /\ result # None
           /\ ~result[1].regenerated
    /\ result # None =>
           /\ result[1].text_file = TextFilename
           /\ result[1].audio_file = AudioFilename

\* a run that found an audio file of more than 50 KiB and returned it
C4_Witness ==
    /\ ExistingDigest
    /\ AudioSize(fs0) > 50 * 1024
    /\ PastGuard
    /\ pc = "exited"
    /\ result # None
    /\ ~result[1].regenerated
    /\ exit_code = Some(0)

\* the errors that end generate_daily_ai_digest
FatalErrors ==
    {"NoStories", "AnalysisFailed", "AnalysisRequired", "SynthesisFailed",
     "EdgeAuthFailed", "EdgeNonRetryable", "BothTtsFailed"}

\* C5 as stated: a run of generate_daily_ai_digest that ends in a fatal
\* error has written no file: the text file is not written without a
\* complete audio file, and no truncated or empty audio file is left.
C5_FatalRunWritesNoFile ==
    (pc = "exited" /\ error \in FatalErrors) =>
        /\ \A k \in DOMAIN trace : trace[k].op # "write_text"
        /\ fs.text = fs0.text
        /\ fs.audio = fs0.audio

---------------------------------------------------------------------------
(* Properties of the fetch loop and of the failure paths, checked under    *)
(* Spec.                                                                   *)

IsFetchEvent(e) == e.op = "fetch"

\* the fetch calls of the run, in order
FetchEvents == SelectSeq(trace, IsFetchEvent)

\* the titles and sources of a list of stories
Headlines(stories) ==
    [k \in DOMAIN stories |->
        [title |-> stories[k].title, source |-> stories[k].source]]

\* the stories of the first n fetches, in order
RECURSIVE FetchedUpTo(_)
FetchedUpTo(n) ==
    IF n = 0 THEN <<>>
    ELSE FetchedUpTo(n - 1) \o Headlines(fetch_log[n].stories)

\* the fetch loop is over and the run went on
FetchLoopDone == trace # <<>> /\ pc # "fetch"

\* C11: a fetch that fails returns an empty list and does not raise, it is
\* not retried, and the pipeline goes on: every source is fetched exactly
\* once, and the run continues with the stories of the other sources.
C11_FailedFetchYieldsNoStoriesAndRunGoesOn ==
    /\ \A k \in DOMAIN fetch_log :
           fetch_log[k].page.kind = "error" => fetch_log[k].stories = <<>>
    /\ Len(fetch_log) = src_i
    /\ FetchEvents = [k \in 1..src_i |-> Event("fetch", k)]
    /\ Headlines(all_stories) = FetchedUpTo(src_i)
    /\ FetchLoopDone => src_i = Len(Sources)
    /\ (FetchLoopDone /\ all_stories # <<>>) => error # "NoStories"
    /\ (pc = "exited" /\ error = "NoStories") => all_stories = <<>>

\* a run whose first fetch raised on a page that held a headline, whose
\* second fetch gave a story, and which ended normally with that story
C11_Witness ==
    /\ Len(fetch_log) = 2
    /\ fetch_log[1].page.kind = "error"
    /\ fetch_log[1].page.selected # <<>>
    /\ fetch_log[2].stories # <<>>
    /\ Headlines(all_stories) = Headlines(fetch_log[2].stories)
    /\ pc = "exited"
    /\ exit_code = Some(0)

\* the credential is missing or empty, or the client library is unavailable
CredentialMissing ==
    \/ env.ANTHROPIC_API_KEY \in {None, Some("")}
    \/ ~env.ANTHROPIC_AVAILABLE

\* nothing was fetched, asked of a model, rendered, written or returned
NothingDone ==
    /\ trace = <<>>
    /\ fetch_log = <<>>
    /\ reply = None
    /\ edge_log = <<>>
    /\ fs = fs0
    /\ result = None

\* C12: when the credential is missing, the client library is unavailable
\* or the client construction fails, the constructor raises before any
\* fetch, model call, TTS call or file write; the idempotency guard is never
\* reached, even if today's files exist, and main exits non-zero.
C12_ConstructionFailureEndsTheRunAtOnce ==
    /\ CredentialMissing =>
           /\ pc \in {"main", "exited"}
           /\ pc = "exited" => error = "KeyRequired"
           /\ NothingDone
    /\ error \in {"KeyRequired", "InitFailed"} =>
           /\ pc = "exited"
           /\ exit_code = Some(1)
           /\ ~ai_enabled
           /\ NothingDone

\* a run with an empty key that found today's files complete and exited
\* with status 1
C12_Witness ==
    /\ env.ANTHROPIC_API_KEY = Some("")
    /\ env.ANTHROPIC_AVAILABLE
    /\ GuardSkips(fs0)
    /\ pc = "exited"
    /\ error = "KeyRequired"
    /\ exit_code = Some(1)

IsSynthesisEvent(e) == e.op = "model" /\ e.arg > 0

IsRenderEvent(e) == e.op \in {"edge_tts", "gtts", "measure"}

IsWriteEvent(e) == e.op = "write_text"

\* no synthesis call, no TTS call and no file write has been made
NoSynthesisNoAudioNoFile ==
    /\ SelectSeq(trace, IsSynthesisEvent) = <<>>
    /\ SelectSeq(trace, IsRenderEvent) = <<>>
    /\ SelectSeq(trace, IsWriteEvent) = <<>>
    /\ edge_log = <<>>
    /\ fs = fs0

\* C13: when the classification call raises or its reply cannot be parsed
\* even after the regex extraction, ai_analyze_stories raises to its caller:
\* no mapping of any kind is used in its place, no synthesis call and no TTS
\* call is made, no file is written, and the run aborts.
C13_ClassificationFailureAbortsTheRun ==
    (reply # None /\ reply[1].kind # "json") =>
        /\ pc = "exited"
        /\ error = "AnalysisFailed"
        /\ exit_code = Some(1)
        /\ themes = <<>>
        /\ digest_text = <<>>
        /\ result = None
        /\ NoSynthesisNoAudioNoFile

\* a run with stories whose classification reply held braces but no JSON
C13_Witness ==
    /\ reply = Some([kind |-> "invalid_json", ai_analysis |-> <<>>])
    /\ all_stories # <<>>
    /\ pc = "exited"
    /\ error = "AnalysisFailed"

\* a synthesis model call of the run failed
SynthesisCallFailed ==
    \E k \in DOMAIN synth_log : synth_log[k].kind = "api_error"

\* C14: if the synthesis call fails for any theme, also after other themes
\* were synthesized, ai_synthesize_content raises: no further synthesis call
\* follows, no digest text is returned (so none of the earlier themes
\* reaches a file), no TTS attempt is made, and the run aborts.
C14_SynthesisFailureAbortsTheRun ==
    SynthesisCallFailed =>
        /\ synth_log[Len(synth_log)].kind = "api_error"
        /\ \A k \in 1..(Len(synth_log) - 1) : synth_log[k].kind = "text"
        /\ pc = "exited"
        /\ error = "SynthesisFailed"
        /\ exit_code = Some(1)
        /\ result = None
        /\ SelectSeq(trace, IsRenderEvent) = <<>>
        /\ SelectSeq(trace, IsWriteEvent) = <<>>
        /\ edge_log = <<>>
        /\ fs = fs0

\* the first theme was synthesized into the digest under construction, the
\* call for the second theme failed, and the run ended
C14_Witness ==
    /\ Len(synth_log) = 2
    /\ synth_log[1].kind = "text"
    /\ Strip(synth_log[1].text) # <<>>
    /\ synth_log[2].kind = "api_error"
    /\ Len(digest_text) > Len(Intro)
    /\ pc = "exited"
    /\ exit_code = Some(1)

\* C15: every run of main in which a fatal error occurs ends with a non-zero
\* exit status; main ends without exit(1) only when generate_daily_ai_digest
\* returned a result that names the audio and the text file.
C15_FatalErrorsExitNonZero ==
    /\ error # "" => (pc = "exited" /\ exit_code = Some(1))
    /\ pc = "exited" <=> exit_code # None
    /\ exit_code # None => exit_code \in {Some(0), Some(1)}
    /\ (pc = "exited" /\ result = None) => exit_code = Some(1)
    /\ exit_code = Some(0) =>
           /\ error = ""
           /\ result # None
           /\ result[1].audio_file = AudioFilename
           /\ result[1].text_file = TextFilename

\* a run that failed at the audio rendering, after the fallback, and exited
\* with status 1
C15_Witness ==
    /\ pc = "exited"
    /\ error = "BothTtsFailed"
    /\ exit_code = Some(1)
    /\ result = None

\* the place of a call in the order guard, fetches, classification,
\* syntheses, audio rendering
StepRank(e) ==
    CASE e.op = "fetch" -> e.arg
      [] e.op = "model" -> Len(Sources) + 1 + e.arg
      [] e.op \in {"edge_tts", "gtts"} ->
             Len(Sources) + 2 + Len(themes)

IsCallEvent(e) == e.op \in {"fetch", "model", "edge_tts", "gtts"}

\* the fetches, model calls and TTS calls of the run, in order
CallEvents == SelectSeq(trace, IsCallEvent)

\* C16: in a regenerating run the steps come strictly in order: the guard
\* before every fetch; the sources one after another in configuration
\* order; all fetches before the one classification call; that call before
\* every synthesis call; every synthesis call before the first TTS attempt.
C16_StepsInPipelineOrder ==
    /\ pc \in {"main", "guard"} => trace = <<>>
    /\ \A k \in DOMAIN fetch_log :
           \A n \in DOMAIN fetch_log[k].stories :
               fetch_log[k].stories[n].source = Sources[k]
    /\ \A calls \in {CallEvents} :
         /\ \A i \in 1..(Len(calls) - 1) :
              /\ StepRank(calls[i]) <= StepRank(calls[i + 1])
              /\ calls[i + 1].op \in {"fetch", "model"}
                     => StepRank(calls[i]) < StepRank(calls[i + 1])
         /\ \A i \in DOMAIN calls :
              calls[i].op = "model" =>
                  /\ i > Len(Sources)
                  /\ calls[Len(Sources) + 1] = Event("model", 0)
                  /\ \A k \in 1..Len(Sources) : calls[k] = Event("fetch", k)
         /\ \A i \in DOMAIN calls :
              calls[i].op \in {"edge_tts", "gtts"} =>
                  /\ reply # None
                  /\ Len(synth_log) = Len(themes)

\* a complete regenerating run of two sources and two themes
C16_Witness ==
    /\ pc = "exited"
    /\ exit_code = Some(0)
    /\ Len(themes) = 2
    /\ SubSeq(CallEvents, 1, 6) =
           <<Event("fetch", 1), Event("fetch", 2), Event("model", 0),
             Event("model", 1), Event("model", 2), Event("edge_tts", 1)>>

---------------------------------------------------------------------------
(* Termination of generate_audio_digest, checked under SpecAudioFair.      *)

IsSleepEvent(e) == e.op = "sleep"

\* the last Edge TTS attempt succeeded
EndedInSuccess == edge_log # <<>> /\ edge_log[Len(edge_log)].ok

\* the gTTS fallback is about to be called or has been called
EndedInFallback == pc = "gtts" \/ FallbackInvoked

\* the retry loop raised
EndedInFailure == error \in {"EdgeAuthFailed", "EdgeNonRetryable"}

\* at most 3 attempts; once the loop is left, exactly one of the three end
\* states; the analysis only after a successful attempt; sleeps of 10 and 20
\* seconds only
RetryLoopWellFormed ==
    /\ Len(edge_log) <= 3
    /\ pc = "edge_tts" =>
           /\ Len(edge_log) < 3
           /\ ~EndedInSuccess /\ ~EndedInFallback /\ ~EndedInFailure
    /\ pc # "edge_tts" =>
           /\ edge_log # <<>>
           /\ EndedInSuccess \/ EndedInFallback \/ EndedInFailure
           /\ ~(EndedInSuccess /\ EndedInFallback)
           /\ ~(EndedInSuccess /\ EndedInFailure)
           /\ ~(EndedInFallback /\ EndedInFailure)
    /\ (pc = "analyze" \/ MeasurementRaised \/ audio_stats # None) =>
           EndedInSuccess \/ EndedInFallback
    /\ pc = "analyze" => EndedInSuccess
    /\ \A calls \in {SelectSeq(RenderTrace, IsSleepEvent)} :
           \A k \in DOMAIN calls : calls[k].arg \in {10, 20}

\* C17: for every sequence of Edge TTS outcomes generate_audio_digest ends
\* after at most 3 attempts in exactly one of Success, Fallback and Failed;
\* the loop never falls through to the audio analysis without a successful
\* attempt, and the delays slept are 10 and 20 seconds only.
C17_RendererEndsWithinThreeAttempts ==
    []RetryLoopWellFormed /\ <>(pc = "exited")

\* the third attempt succeeded after two authentication failures and sleeps
\* of 10 and 20 seconds, and the run ended
C17_Witness ==
    /\ Len(edge_log) = 3
    /\ EndedInSuccess
    /\ SelectSeq(RenderTrace, IsSleepEvent)
           = <<Event("sleep", 10), Event("sleep", 20)>>
    /\ pc = "exited"
    /\ exit_code = Some(0)


---------------------------------------------------------------------------
(* Properties of create_ai_enhanced_digest, checked under Spec.            *)

\* create_ai_enhanced_digest has returned its text
DigestReturned ==
    pc \in {"write_text", "edge_tts", "gtts", "analyze"}
    \/ (pc = "exited" /\ audio_stats # None)

\* the paragraphs of the first n synthesis replies, blank ones left out,
\* each after a blank line
RECURSIVE Paragraphs(_)
Paragraphs(n) ==
    IF n = 0 THEN <<>>
    ELSE Paragraphs(n - 1) \o
         (IF Strip(synth_log[n].text) # <<>>
          THEN <<"\n\n">> \o Strip(synth_log[n].text)
          ELSE <<>>)

\* C21 as stated: every digest text create_ai_enhanced_digest returns, for
\* every mapping the classifier can return, the empty mapping included, is
\* the greeting with the date, then the non-empty theme paragraphs in the
\* mapping's order, each after a blank line, then the closing disclaimer.
C21_DigestIsGreetingParagraphsClosing ==
    DigestReturned =>
        /\ Len(synth_log) = Len(themes)
        /\ digest_text = Intro \o Paragraphs(Len(synth_log)) \o Closing

---------------------------------------------------------------------------
(* Properties of the parse of the classification reply, checked under      *)
(* SpecParse.                                                              *)

IsModelEvent(e) == e.op = "model"

\* the classification call returned a text
TextReturned == reply # None /\ reply[1].kind # "api_error"

\* ai_analyze_stories raised
AnalysisRaised ==
    /\ pc = "exited"
    /\ error = "AnalysisFailed"
    /\ exit_code = Some(1)
    /\ themes = <<>>

\* the value goes to the loops over ai_analysis: they return the mapping of
\* its analyses, or raise on a value that is no dictionary of lists of
\* analyses
ClassificationProceeds(value) ==
    IF ItemsOf(value).ok
    THEN /\ reply[1].kind = "json"
         /\ reply[1].ai_analysis = ItemsOf(value).ai_analysis
         /\ error = ""
         /\ pc \in {"synthesize", "write_text"}
         /\ themes = ThemeLoop(StoriesOf(<<TitleVotePollWins,
                                           TitleVotePollRate>>),
                               ItemsOf(value).ai_analysis, <<>>).themes
    ELSE /\ reply[1].kind = "ill_shaped"
         /\ AnalysisRaised

\* C23: the reply is parsed in two stages: after the fences are stripped a
\* direct JSON parse is tried first; the greedy {...} search is tried only
\* if the direct parse fails; classification proceeds if either stage
\* yields JSON; if both fail, or no {...} span exists, ai_analyze_stories
\* raises; and in no case is the model called a second time.
C23_TwoStageParseOneModelCall ==
    /\ Len(SelectSeq(trace, IsModelEvent)) = (IF reply = None THEN 0 ELSE 1)
    /\ (reply # None /\ reply[1].kind = "api_error") => AnalysisRaised
    /\ TextReturned =>
         \A direct \in {JsonLoads(CleanedText(reply[1].text))} :
           \A span \in {GreedySearch(CleanedText(reply[1].text))} :
             /\ Head(reply[1].steps) = "json.loads"
             /\ direct.ok => /\ reply[1].steps = <<"json.loads">>
                             /\ ClassificationProceeds(direct.value)
             /\ (~direct.ok /\ span = None) =>
                    /\ reply[1].steps = <<"json.loads", "re.search">>
                    /\ reply[1].kind = "no_json"
                    /\ AnalysisRaised
             /\ (~direct.ok /\ span # None) =>
                    /\ reply[1].steps
                           = <<"json.loads", "re.search", "json.loads">>
                    /\ IF JsonLoads(span[1]).ok
                       THEN ClassificationProceeds(JsonLoads(span[1]).value)
                       ELSE reply[1].kind = "invalid_json" /\ AnalysisRaised

\* a reply of prose, an analysis and a closing fence: the direct parse
\* failed, the search found the analysis, and its story is in the mapping
C23_Witness ==
    /\ TextReturned
    /\ reply[1].text # <<>>
    /\ Head(reply[1].text) = "Sure"
    /\ reply[1].text[Len(reply[1].text)] = Fence
    /\ reply[1].steps = <<"json.loads", "re.search", "json.loads">>
    /\ reply[1].kind = "json"
    /\ Len(themes) = 1
    /\ themes[1].stories = <<1>>
    /\ Len(SelectSeq(trace, IsModelEvent)) = 1

---------------------------------------------------------------------------
(* Properties of fallback_categorization, checked under SpecFallback.      *)

\* the keyword sets of the headlines of the calls
KeywordsOfFallbackTitle == [title \in FallbackTitles |-> Keywords(title)]

\* tokens longer than 3 characters, alphabetic, lower-cased, of the story
\* at position i
FallbackStoryKeywords(i) == KeywordsOfFallbackTitle[all_stories[i].title]

\* |a & b| / |a | b| <= 0.5, cross-multiplied; two empty sets share nothing
\* and count as overlap 0
OverlapAtMostHalf(a, b) == 2 * Cardinality(a \cap b) <= Cardinality(a \cup b)

\* C24: in the mapping fallback_categorization returns, for every theme
\* bucket and every pair of distinct retained stories, the Jaccard overlap
\* of their keyword sets is at most 0.5.
C24_FallbackOverlapAtMostHalf ==
    pc = "categorized" =>
        \A t \in DOMAIN themes :
            \A i, j \in DOMAIN themes[t].stories :
                i < j =>
                    /\ themes[t].stories[i] # themes[t].stories[j]
                    /\ OverlapAtMostHalf(
                           FallbackStoryKeywords(themes[t].stories[i]),
                           FallbackStoryKeywords(themes[t].stories[j]))

\* a returned bucket that kept two stories at overlap exactly 0.5 and
\* dropped a third that matched the theme
C24_Witness ==
    /\ pc = "categorized"
    /\ \E t \in DOMAIN themes :
         /\ themes[t].theme = "economy"
         /\ Len(themes[t].stories) = 2
         /\ \A a \in {FallbackStoryKeywords(themes[t].stories[1])} :
              \A b \in {FallbackStoryKeywords(themes[t].stories[2])} :
                 /\ a # {} /\ b # {}
                 /\ 2 * Cardinality(a \cap b) = Cardinality(a \cup b)
         /\ \E i \in DOMAIN all_stories :
              /\ i \notin Range(themes[t].stories)
              /\ MatchesTheme(all_stories[i].title, ThemeKeywords[2].keywords)

---------------------------------------------------------------------------
(* Properties of a run without stories, checked under Spec.                *)

\* every source was fetched and none gave a story
EverySourceEmpty ==
    /\ Len(fetch_log) = Len(Sources)
    /\ \A k \in DOMAIN fetch_log : fetch_log[k].stories = <<>>

\* C25: when every source yields zero stories in a regenerating run,
\* generate_daily_ai_digest makes no model call and no TTS call, writes
\* neither the text file nor the audio file, returns no result, and main
\* exits with a non-zero status.
C25_NoStoriesEndsTheRunEmptyHanded ==
    EverySourceEmpty =>
        /\ pc = "exited"
        /\ error = "NoStories"
        /\ result = None
        /\ exit_code = Some(1)
        /\ all_stories = <<>>
        /\ reply = None
        /\ SelectSeq(trace, IsModelEvent) = <<>>
        /\ SelectSeq(trace, IsRenderEvent) = <<>>
        /\ SelectSeq(trace, IsWriteEvent) = <<>>
        /\ edge_log = <<>>
        /\ fs = fs0

\* a run that found no digest of the day, whose first fetch raised and
\* whose second fetch found no headline on the page, and which exited with
\* status 1
C25_Witness ==
    /\ EverySourceEmpty
    /\ ~GuardSkips(fs0)
    /\ fetch_log[1].page.kind = "error"
    /\ fetch_log[2].page.kind = "html"
    /\ pc = "exited"
    /\ exit_code = Some(1)

---------------------------------------------------------------------------
(* Properties of two runs on the same day, checked under SpecDay.          *)

\* the first run of the day ended in a fatal error of
\* generate_daily_ai_digest
FirstRunFailed == runs # <<>> /\ runs[1].error \in FatalErrors

\* the first run of the day regenerated the digest and returned it
FirstRunRegenerated ==
    /\ runs # <<>>
    /\ runs[1].exit_code = Some(0)
    /\ runs[1].result # None
    /\ runs[1].result[1].regenerated

\* the run skipped the regeneration: it returned the files it found
SkippedRegeneration ==
    /\ pc = "exited"
    /\ result # None
    /\ ~result[1].regenerated
    /\ trace = <<>>
    /\ fs = fs0

\* the run is past its guard and goes through the pipeline
Regenerates == PastGuard /\ (result = None \/ result[1].regenerated)

\* C26 as stated: the guard never skips regeneration on the strength of
\* files left behind by a run that ended in a fatal error: after a failed
\* run, the next run of the day regenerates the digest.
C26_FailedRunIsRegenerated ==
    (FirstRunFailed /\ PastGuard) => Regenerates

\* C30 as stated: after a run that regenerated and completed, the next run
\* of the day skips the regeneration, whatever digest text and audio the
\* first run produced.
C30_SecondRunSkips ==
    (FirstRunRegenerated /\ PastGuard) => SkippedRegeneration

\* C30: after a run that regenerated and completed, the next run of the
\* day, with the files untouched, skips the regeneration, whatever digest
\* text the first run produced, when the audio file that run produced is
\* larger than 50000 bytes; when it is not, the next run regenerates.
C30_SecondRunSkipsAboveFloor ==
    (FirstRunRegenerated /\ PastGuard) =>
        /\ fs0.text # None
        /\ fs0.audio # None
        /\ IF AudioSize(fs0) > 50000
           THEN SkippedRegeneration
           ELSE Regenerates

\* a first run that rendered its digest at the second Edge TTS attempt,
\* and a second run that returned the files of the first
C30_Witness ==
    /\ FirstRunRegenerated
    /\ runs[1].result[1].stories_analyzed = 1
    /\ Len(fs0.audio[1]) = 2
    /\ fs0.audio[1][1].by = "edge"
    /\ fs0.audio[1][1].attempt = 2
    /\ SkippedRegeneration
    /\ exit_code = Some(0)

---------------------------------------------------------------------------
(* Properties of the Edge TTS attempts, checked under SpecAudio.           *)

\* the k-th Edge TTS attempt raised an error that is not of the
\* authentication class
OtherErrorAt(k) ==
    /\ k \in DOMAIN edge_log
    /\ ~edge_log[k].ok
    /\ edge_log[k].message \notin AuthenticationClass

\* C27: for every sequence of Edge TTS outcomes, a non-authentication error
\* at attempt k (1, 2 or 3), also after authentication-class errors, ends
\* generate_audio_digest at once: no attempt k + 1 is made, no sleep
\* follows, and the gTTS fallback is not called even when GITHUB_ACTIONS is
\* 'true'.
C27_OtherErrorEndsRenderAtAnyAttempt ==
    \A k \in 1..3 :
        OtherErrorAt(k) =>
            /\ Len(edge_log) = k
            /\ \A calls \in {RenderTrace} :
                 /\ calls[Len(calls)] = Event("edge_tts", k)
                 /\ Len(SelectSeq(calls, IsSleepEvent)) = k - 1
            /\ ~FallbackInvoked
            /\ pc = "exited"
            /\ error = "EdgeNonRetryable"
            /\ exit_code = Some(1)
            /\ audio_stats = None
            /\ result = None

\* two authentication failures, then a connection reset at the third
\* attempt, in CI: the renderer raised without calling the fallback
C27_Witness ==
    /\ Len(edge_log) = 3
    /\ edge_log[1].message \in AuthenticationClass
    /\ edge_log[2].message \in AuthenticationClass
    /\ OtherErrorAt(3)
    /\ env.GITHUB_ACTIONS = Some("true")
    /\ pc = "exited"
    /\ error = "EdgeNonRetryable"

\* what the attempts before the last one wrote into the audio file
EarlierAttemptWrote ==
    \E k \in 1..(Len(edge_log) - 1) :
        edge_log[k].opened /\ edge_log[k].chunks > 0

\* the audio chunks the last attempt streamed, in the order of the stream
StreamedByLastAttempt ==
    [k \in 1..edge_log[Len(edge_log)].chunks |->
        [by |-> "edge", attempt |-> Len(edge_log), seq |-> k,
         bytes |-> ChunkBytes]]

\* C29: when Edge TTS succeeds at attempt 2 or 3 after failed attempts,
\* the audio file holds exactly the audio chunks the successful attempt
\* streamed, in their order, and nothing an earlier attempt wrote.
C29_RetriedRenderHoldsOnlyLastStream ==
    (EndedInSuccess /\ Len(edge_log) >= 2) =>
        /\ fs.audio = <<StreamedByLastAttempt>>
        /\ \A k \in 1..Len(fs.audio[1]) :
              /\ fs.audio[1][k].attempt = Len(edge_log)
              /\ fs.audio[1][k].seq = k

\* the first attempt wrote two chunks before its authentication error, the
\* second failed before opening the file, the third streamed one chunk, and
\* the file the run started with was there
C29_Witness ==
    /\ EndedInSuccess
    /\ Len(edge_log) = 3
    /\ edge_log[1].opened /\ edge_log[1].chunks = 2
    /\ ~edge_log[2].opened
    /\ edge_log[3].chunks = 1
    /\ EarlierAttemptWrote
    /\ fs0.audio # None
    /\ Len(fs.audio[1]) = 1

---------------------------------------------------------------------------
(* Properties of the dropped stories, checked under SpecAnalyze.           *)

\* the stories of the returned bucket of a theme (none when the theme is
\* not in the mapping)
Bucket(theme) ==
    UNION { Range(themes[t].stories) :
              t \in { u \in DOMAIN themes : themes[u].theme = theme } }

\* the story listed at position p of an item is absent from the item's
\* returned bucket
Dropped(item, p) ==
    /\ p \in InRangeEntries(item)
    /\ item.story_analyses[p].index \notin Bucket(item.theme)

\* C28: the dedup drops a candidate only when it is a duplicate of a kept
\* one: every in-range story the reply lists under a theme that is absent
\* from the theme's returned list overlaps strictly above 0.4 with a story
\* listed earlier and retained in the same theme; a story whose keyword set
\* is empty is never dropped.
C28_OnlyDuplicatesAreDropped ==
    AnalysisReturned =>
        \A item \in Range(reply[1].ai_analysis) :
            \A p \in InRangeEntries(item) :
                /\ Dropped(item, p) =>
                       \E q \in InRangeEntries(item) :
                           /\ q < p
                           /\ item.story_analyses[q].index
                                  \in Bucket(item.theme)
                           /\ OverlapAboveTwoFifths(
                                  StoryKeywords(item.story_analyses[p].index),
                                  StoryKeywords(item.story_analyses[q].index))
                /\ StoryKeywords(item.story_analyses[p].index) = {}
                       => ~Dropped(item, p)

\* a reply that lists three stories under one theme: the second was
\* dropped for its overlap with the first, and the third was kept although
\* it overlaps as much with the dropped one
C28_Witness ==
    /\ AnalysisReturned
    /\ \E item \in Range(reply[1].ai_analysis) :
         /\ Len(item.story_analyses) = 3
         /\ ~Dropped(item, 1)
         /\ Dropped(item, 2)
         /\ 3 \in InRangeEntries(item)
         /\ ~Dropped(item, 3)
         /\ OverlapAboveTwoFifths(
                StoryKeywords(item.story_analyses[2].index),
                StoryKeywords(item.story_analyses[3].index))

=============================================================================
